---- MODULE Spec2Model ----
(***************************************************************************)
(* A model of the IMP virtual machine (Interp::Run, src/interp.cpp), its   *)
(* host primitives (src/runtime.cpp) and its recursive-descent parser      *)
(* (src/parser.cpp).                                                       *)
(***************************************************************************)
EXTENDS Integers, Sequences, FiniteSets, TLC

VARIABLES
    prog,     \* prog_: the instruction stream, byte address -> cell
    pc,       \* pc_: byte address of the next cell to read
    stack,    \* stack_: the operand/call stack, bottom first
    status,   \* where Run is: "running", "stopped" (returned), or how it was left
    out,      \* what the primitives wrote to std::cout, oldest first
    toks,     \* the tokens the Lexer yields, in order; END for ever after them
    tokpos,   \* the Lexer's place: Current() is token tokpos of toks
    ast,      \* what the parser returned
    pstatus,  \* where the parser is: "ready", "ok" (returned), or how it was left
    lex       \* the Lexer reading a file: its stream, chr_, tk_ and how it was left

vmVars == <<prog, pc, stack, status, out>>
frontVars == <<toks, tokpos, ast, pstatus>>
vars == <<vmVars, frontVars, lex>>

(***************************************************************************)
(* Bounds of the model.                                                    *)
(***************************************************************************)
MaxInt == 2
MaxFact == 5
MaxArgs == 2
MaxLocals == 2
MaxOps == 3
MaxToks == 3
MaxCallDepth == 16

IntVals == (0 - MaxInt)..MaxInt

(***************************************************************************)
(* Runtime values: a tagged union (Value, Value::Kind).                    *)
(***************************************************************************)
IntV(i) == [k |-> "INT", v |-> i]
BoolV(b) == [k |-> "BOOL", v |-> b]
AddrV(a) == [k |-> "ADDR", v |-> a]
ProtoV(f) == [k |-> "PROTO", v |-> f]

\* No AST yet (a null std::shared_ptr).
NoNode == [e |-> "none"]

\* No Lexer constructed.
NoLexer == [st |-> "none"]

\* kRuntimeFns: the names of the registered primitives.
kRuntimeFns == {"print_int", "read_int", "print_bool"}

(***************************************************************************)
(* The encoded instruction stream.  An instruction is a one-byte opcode    *)
(* followed by its operands; Read<T>(pc_) returns the T at pc_ and         *)
(* advances pc_ by sizeof(T).                                              *)
(***************************************************************************)
SizeOpcode == 1
SizeAddr == 8
SizeFn == 8
SizeInt == 8
SizeBool == 1
SizeUnsigned == 4

Opcodes ==
    {"PUSH_FUNC", "PUSH_PROTO", "PEEK", "POP", "CALL", "ADD", "SUB", "MUL",
     "DIV", "MOD", "EQ", "NEQ", "LEQ", "GREQ", "LE", "GR", "NEG", "NOT", "RET",
     "JUMP_FALSE", "JUMP", "PUSH_INT", "PUSH_BOOL", "PUSH_STRING", "STOP"}

\* The operand widths of an opcode, in the order the handler reads them.
OperandSizes(op) ==
    CASE op = "PUSH_FUNC" -> <<SizeAddr>>
      [] op = "PUSH_PROTO" -> <<SizeFn>>
      [] op = "PEEK" -> <<SizeUnsigned>>
      [] op = "RET" -> <<SizeUnsigned, SizeUnsigned>>
      [] op = "JUMP_FALSE" -> <<SizeAddr>>
      [] op = "JUMP" -> <<SizeAddr>>
      [] op = "PUSH_INT" -> <<SizeInt>>
      [] op = "PUSH_BOOL" -> <<SizeBool>>
      [] OTHER -> <<>>

\* Which opcodes carry a code address (given as an instruction label in a listing).
TakesLabel(op) == op \in {"PUSH_FUNC", "JUMP_FALSE", "JUMP"}

RECURSIVE SumSeq(_)
SumSeq(s) == IF s = <<>> THEN 0 ELSE Head(s) + SumSeq(Tail(s))

\* A listing is a sequence of instructions <<opcode, operand, ...>>.
InstrSize(ins) == SizeOpcode + SumSeq(OperandSizes(ins[1]))

RECURSIVE Offset(_, _)
Offset(code, i) == IF i = 1 THEN 0 ELSE Offset(code, i - 1) + InstrSize(code[i - 1])

\* The byte address of operand j of instruction i.
OperandAddr(code, i, j) ==
    Offset(code, i) + SizeOpcode + SumSeq(SubSeq(OperandSizes(code[i][1]), 1, j - 1))

\* The stream a listing is emitted as: the opcode cell at the instruction's
\* address, each operand cell at its own address, labels resolved to addresses.
Assemble(code) ==
    LET cells ==
            {<<Offset(code, i), [t |-> "op", v |-> code[i][1]]>> : i \in 1..Len(code)}
            \cup UNION {
                {<<OperandAddr(code, i, j),
                   [t |-> "arg",
                    v |-> IF TakesLabel(code[i][1])
                          THEN Offset(code, code[i][j + 1])
                          ELSE code[i][j + 1]]>> : j \in 1..(Len(code[i]) - 1)}
                : i \in 1..Len(code)}
    IN  [a \in {c[1] : c \in cells} |-> (CHOOSE c \in cells : c[1] = a)[2]]

\* prog_.Read<T>(pc_): the value of the cell at address a.
Read(a) == prog[a].v

(***************************************************************************)
(* Stack primitives of Interp (Push, Pop, PopInt, PopBool, PopAddr,        *)
(* PeekInt, PeekBool).  A Pop result is [st, val, rest]: st is "ok", the   *)
(* error raised on a tag mismatch, or "wild" for a pop of the empty stack. *)
(***************************************************************************)
Push(s, v) == Append(s, v)
Top(s) == s[Len(s)]
Drop(s, n) == SubSeq(s, 1, Len(s) - n)

Pop(s) ==
    IF s = <<>>
    THEN [st |-> "wild", val |-> IntV(0), rest |-> s]
    ELSE [st |-> "ok", val |-> Top(s), rest |-> Drop(s, 1)]

PopKind(s, kind) ==
    LET p == Pop(s)
    IN  IF p.st = "ok" /\ p.val.k # kind
        THEN [p EXCEPT !.st = "RuntimeError"]
        ELSE p

PopInt(s) == PopKind(s, "INT")
PopBool(s) == PopKind(s, "BOOL")
PopAddr(s) == PopKind(s, "ADDR")

PeekKind(s, kind) ==
    IF s = <<>> THEN [st |-> "wild", val |-> IntV(0)]
    ELSE IF Top(s).k # kind THEN [st |-> "RuntimeError", val |-> Top(s)]
    ELSE [st |-> "ok", val |-> Top(s)]

PeekInt(s) == PeekKind(s, "INT")
PeekBool(s) == PeekKind(s, "BOOL")

\* The truth values `!cond` can take for a popped Value: a boolean converts
\* to itself; the conversion of any other kind is not fixed here.
Truth(v) == IF v.k = "BOOL" THEN {v.v} ELSE BOOLEAN

(***************************************************************************)
(* C++ integer division and remainder truncate towards zero.               *)
(***************************************************************************)
Abs(x) == IF x < 0 THEN 0 - x ELSE x
CDiv(l, r) == IF (l < 0) = (r < 0) THEN Abs(l) \div Abs(r) ELSE 0 - (Abs(l) \div Abs(r))
CMod(l, r) == l - r * CDiv(l, r)

(***************************************************************************)
(* The fetch-execute loop: one action per case of the switch.              *)
(***************************************************************************)
\* auto op = prog_.Read<Opcode>(pc_); switch (op) ... case Opcode::o
Fetched(o) ==
    /\ status = "running"
    /\ pc \in DOMAIN prog
    /\ prog[pc].t = "op"
    /\ prog[pc].v = o

\* The state the handler leaves behind; Run does not touch the front end.
Leave(p, s, st) ==
    /\ pc' = p
    /\ stack' = s
    /\ status' = st
    /\ UNCHANGED <<frontVars, lex>>


(***************************************************************************)
(* Host primitives (src/runtime.cpp).  Each receives the interpreter, here *)
(* the stack s left by CALL and the pc p to continue at.                   *)
(***************************************************************************)
\* PrintInt with the argument popped instead of peeked.
PrintInt_PopsArgument(s, p) ==
    LET r == PeekInt(s)
    IN  IF r.st # "ok"
        THEN Leave(p, s, r.st) /\ out' = out
        ELSE Leave(p, Push(Drop(s, 1), IntV(r.val.v)), "running") /\ out' = Append(out, r.val)

PrintInt(s, p) ==
    LET r == PeekInt(s)
    IN  IF r.st # "ok"
        THEN Leave(p, s, r.st) /\ out' = out
        ELSE Leave(p, Push(s, IntV(r.val.v)), "running") /\ out' = Append(out, r.val)

PrintBool(s, p) ==
    LET r == PeekBool(s)
    IN  IF r.st # "ok"
        THEN Leave(p, s, r.st) /\ out' = out
        ELSE Leave(p, Push(s, BoolV(r.val.v)), "running") /\ out' = Append(out, r.val)

\* std::cin >> val: any integer the input holds.
ReadInt(s, p) ==
    \E val \in IntVals : Leave(p, Push(s, IntV(val)), "running") /\ out' = out

\* (*callee.Val.Proto)(*this)
CallProto(f, s, p) ==
    CASE f = "print_int" -> PrintInt(s, p)
      [] f = "read_int" -> ReadInt(s, p)
      [] f = "print_bool" -> PrintBool(s, p)

(***************************************************************************)
(* The handlers of Interp::Run.                                            *)
(***************************************************************************)
OpPUSH_FUNC ==
    /\ Fetched("PUSH_FUNC")
    /\ Leave(pc + SizeOpcode + SizeAddr,
             Push(stack, AddrV(Read(pc + SizeOpcode))), "running")
    /\ UNCHANGED <<prog, out>>

OpPUSH_PROTO ==
    /\ Fetched("PUSH_PROTO")
    /\ Leave(pc + SizeOpcode + SizeFn,
             Push(stack, ProtoV(Read(pc + SizeOpcode))), "running")
    /\ UNCHANGED <<prog, out>>

OpPEEK ==
    /\ Fetched("PEEK")
    /\ LET idx == Read(pc + SizeOpcode)
           p == pc + SizeOpcode + SizeUnsigned
       IN  IF idx >= Len(stack)
           THEN Leave(p, stack, "wild")
           ELSE Leave(p, Push(stack, stack[Len(stack) - idx]), "running")
    /\ UNCHANGED <<prog, out>>

OpPOP ==
    /\ Fetched("POP")
    /\ LET r == Pop(stack)
       IN  Leave(pc + SizeOpcode, r.rest, IF r.st = "ok" THEN "running" ELSE r.st)
    /\ UNCHANGED <<prog, out>>

\* Mutant: CALL saves the address of the CALL itself.
OpCALL_SavesOwnAddress ==
    /\ Fetched("CALL")
    /\ LET callee == Pop(stack)
           p == pc + SizeOpcode
       IN  IF callee.st # "ok"
           THEN Leave(p, callee.rest, callee.st) /\ out' = out
           ELSE CASE callee.val.k = "PROTO" -> CallProto(callee.val.v, callee.rest, p)
                  [] callee.val.k = "ADDR" ->
                        /\ Leave(callee.val.v, Push(callee.rest, AddrV(pc)), "running")
                        /\ out' = out
                  [] callee.val.k \in {"INT", "BOOL", "STRING"} ->
                        /\ Leave(p, callee.rest, "RuntimeError")
                        /\ out' = out
    /\ UNCHANGED prog

\* Mutant: the integer case has lost its throw and reaches the `continue`.
OpCALL_IgnoresInteger ==
    /\ Fetched("CALL")
    /\ LET callee == Pop(stack)
           p == pc + SizeOpcode
       IN  IF callee.st # "ok"
           THEN Leave(p, callee.rest, callee.st) /\ out' = out
           ELSE CASE callee.val.k = "PROTO" -> CallProto(callee.val.v, callee.rest, p)
                  [] callee.val.k = "ADDR" ->
                        /\ Leave(callee.val.v, Push(callee.rest, AddrV(p)), "running")
                        /\ out' = out
                  [] callee.val.k = "INT" ->
                        /\ Leave(p, callee.rest, "running")
                        /\ out' = out
                  [] callee.val.k \in {"BOOL", "STRING"} ->
                        /\ Leave(p, callee.rest, "RuntimeError")
                        /\ out' = out
    /\ UNCHANGED prog

OpCALL ==
    /\ Fetched("CALL")
    /\ LET callee == Pop(stack)
           p == pc + SizeOpcode
       IN  IF callee.st # "ok"
           THEN Leave(p, callee.rest, callee.st) /\ out' = out
           ELSE CASE callee.val.k = "PROTO" -> CallProto(callee.val.v, callee.rest, p)
                  [] callee.val.k = "ADDR" ->
                        /\ Leave(callee.val.v, Push(callee.rest, AddrV(p)), "running")
                        /\ out' = out
                  [] callee.val.k \in {"INT", "BOOL", "STRING"} ->
                        /\ Leave(p, callee.rest, "RuntimeError")
                        /\ out' = out
    /\ UNCHANGED prog

\* Mutant: SUB takes the operands in the order they are popped.
ArithResult_SubSwapped(o, l, r) ==
    CASE o = "ADD" -> IntV(l + r)
      [] o = "SUB" -> IntV(r - l)
      [] o = "MUL" -> IntV(l * r)
      [] o = "DIV" -> IntV(CDiv(l, r))
      [] o = "MOD" -> IntV(CMod(l, r))
      [] o = "EQ" -> BoolV(l = r)
      [] o = "NEQ" -> BoolV(l # r)
      [] o = "LEQ" -> BoolV(l <= r)
      [] o = "GREQ" -> BoolV(l >= r)
      [] o = "LE" -> BoolV(l < r)
      [] o = "GR" -> BoolV(l > r)

\* The value each case pushes: Push(lhs op rhs).
ArithResult(o, l, r) ==
    CASE o = "ADD" -> IntV(l + r)
      [] o = "SUB" -> IntV(l - r)
      [] o = "MUL" -> IntV(l * r)
      [] o = "DIV" -> IntV(CDiv(l, r))
      [] o = "MOD" -> IntV(CMod(l, r))
      [] o = "EQ" -> BoolV(l = r)
      [] o = "NEQ" -> BoolV(l # r)
      [] o = "LEQ" -> BoolV(l <= r)
      [] o = "GREQ" -> BoolV(l >= r)
      [] o = "LE" -> BoolV(l < r)
      [] o = "GR" -> BoolV(l > r)

\* Whether C++ defines lhs op rhs: / and % by zero are undefined, and no
\* case checks for it.
ArithDefined(o, l, r) == o \in {"DIV", "MOD"} => r # 0

\* rhs = PopInt(); lhs = PopInt(); Push(lhs op rhs).  Where the C++ operator
\* is undefined for the operands the build decides: the division traps, or
\* some integer is pushed.
BinaryOp(o) ==
    /\ Fetched(o)
    /\ LET p == pc + SizeOpcode
           rhs == PopInt(stack)
           lhs == PopInt(rhs.rest)
       IN  IF rhs.st # "ok" THEN Leave(p, rhs.rest, rhs.st)
           ELSE IF lhs.st # "ok" THEN Leave(p, lhs.rest, lhs.st)
           ELSE IF ArithDefined(o, lhs.val.v, rhs.val.v)
                THEN Leave(p, Push(lhs.rest, ArithResult(o, lhs.val.v, rhs.val.v)), "running")
                ELSE \/ Leave(p, lhs.rest, "trap")
                     \/ \E x \in IntVals : Leave(p, Push(lhs.rest, IntV(x)), "running")
    /\ UNCHANGED <<prog, out>>

OpADD == BinaryOp("ADD")
OpSUB == BinaryOp("SUB")
OpMUL == BinaryOp("MUL")
OpDIV == BinaryOp("DIV")
OpMOD == BinaryOp("MOD")
\* Mutant: EQ pops with Pop() and compares whatever it finds.
OpEQ_Untyped ==
    /\ Fetched("EQ")
    /\ LET p == pc + SizeOpcode
           rhs == Pop(stack)
           lhs == Pop(rhs.rest)
       IN  IF rhs.st # "ok" THEN Leave(p, rhs.rest, rhs.st)
           ELSE IF lhs.st # "ok" THEN Leave(p, lhs.rest, lhs.st)
           ELSE Leave(p, Push(lhs.rest, BoolV(lhs.val = rhs.val)), "running")
    /\ UNCHANGED <<prog, out>>
OpEQ == BinaryOp("EQ")
OpNEQ == BinaryOp("NEQ")
OpLEQ == BinaryOp("LEQ")
OpGREQ == BinaryOp("GREQ")
OpLE == BinaryOp("LE")
OpGR == BinaryOp("GR")

OpNEG ==
    /\ Fetched("NEG")
    /\ LET opr == PopInt(stack)
           p == pc + SizeOpcode
       IN  IF opr.st # "ok" THEN Leave(p, opr.rest, opr.st)
           ELSE Leave(p, Push(opr.rest, IntV(0 - opr.val.v)), "running")
    /\ UNCHANGED <<prog, out>>

OpNOT ==
    /\ Fetched("NOT")
    /\ LET opr == PopBool(stack)
           p == pc + SizeOpcode
       IN  IF opr.st # "ok" THEN Leave(p, opr.rest, opr.st)
           ELSE Leave(p, Push(opr.rest, BoolV(~opr.val.v)), "running")
    /\ UNCHANGED <<prog, out>>

\* Mutant: RET leaves the caller's arguments on the stack.
OpRET_KeepsArgs ==
    /\ Fetched("RET")
    /\ LET depth == Read(pc + SizeOpcode)
           nargs == Read(pc + SizeOpcode + SizeUnsigned)
           p == pc + SizeOpcode + SizeUnsigned + SizeUnsigned
           v == Pop(stack)
       IN  IF v.st # "ok" THEN Leave(p, v.rest, v.st)
           ELSE IF depth > Len(v.rest) THEN Leave(p, v.rest, "length_error")
           ELSE LET ra == PopAddr(Drop(v.rest, depth))
                IN  IF ra.st # "ok" THEN Leave(p, ra.rest, ra.st)
                    ELSE Leave(ra.val.v, Push(ra.rest, v.val), "running")
    /\ UNCHANGED <<prog, out>>

\* stack_.resize(stack_.size() - n) with n > size asks for a size no vector
\* can have: std::length_error.
OpRET ==
    /\ Fetched("RET")
    /\ LET depth == Read(pc + SizeOpcode)
           nargs == Read(pc + SizeOpcode + SizeUnsigned)
           p == pc + SizeOpcode + SizeUnsigned + SizeUnsigned
           v == Pop(stack)
       IN  IF v.st # "ok" THEN Leave(p, v.rest, v.st)
           ELSE IF depth > Len(v.rest) THEN Leave(p, v.rest, "length_error")
           ELSE LET ra == PopAddr(Drop(v.rest, depth))
                IN  IF ra.st # "ok" THEN Leave(p, ra.rest, ra.st)
                    ELSE IF nargs > Len(ra.rest)
                         THEN Leave(ra.val.v, ra.rest, "length_error")
                         ELSE Leave(ra.val.v, Push(Drop(ra.rest, nargs), v.val), "running")
    /\ UNCHANGED <<prog, out>>

\* Mutant: the branch is taken on true.
OpJUMP_FALSE_Inverted ==
    /\ Fetched("JUMP_FALSE")
    /\ LET cond == Pop(stack)
           addr == Read(pc + SizeOpcode)
           p == pc + SizeOpcode + SizeAddr
       IN  IF cond.st # "ok" THEN Leave(p, cond.rest, cond.st)
           ELSE \E t \in Truth(cond.val) :
                    Leave(IF t THEN addr ELSE p, cond.rest, "running")
    /\ UNCHANGED <<prog, out>>

OpJUMP_FALSE ==
    /\ Fetched("JUMP_FALSE")
    /\ LET cond == Pop(stack)
           addr == Read(pc + SizeOpcode)
           p == pc + SizeOpcode + SizeAddr
       IN  IF cond.st # "ok" THEN Leave(p, cond.rest, cond.st)
           ELSE \E t \in Truth(cond.val) :
                    Leave(IF ~t THEN addr ELSE p, cond.rest, "running")
    /\ UNCHANGED <<prog, out>>

\* Mutant: the target is read and pc is left after it.
OpJUMP_FallsThrough ==
    /\ Fetched("JUMP")
    /\ Leave(pc + SizeOpcode + SizeAddr, stack, "running")
    /\ UNCHANGED <<prog, out>>

OpJUMP ==
    /\ Fetched("JUMP")
    /\ Leave(Read(pc + SizeOpcode), stack, "running")
    /\ UNCHANGED <<prog, out>>

OpPUSH_INT ==
    /\ Fetched("PUSH_INT")
    /\ Leave(pc + SizeOpcode + SizeInt, Push(stack, IntV(Read(pc + SizeOpcode))), "running")
    /\ UNCHANGED <<prog, out>>

OpPUSH_BOOL ==
    /\ Fetched("PUSH_BOOL")
    /\ Leave(pc + SizeOpcode + SizeBool, Push(stack, BoolV(Read(pc + SizeOpcode))), "running")
    /\ UNCHANGED <<prog, out>>

\* Mutant: the case has no throw and reaches the next iteration.
OpPUSH_STRING_Skips ==
    /\ Fetched("PUSH_STRING")
    /\ Leave(pc + SizeOpcode, stack, "running")
    /\ UNCHANGED <<prog, out>>

\* throw std::logic_error("Not yet implemented")
OpPUSH_STRING ==
    /\ Fetched("PUSH_STRING")
    /\ Leave(pc + SizeOpcode, stack, "logic_error")
    /\ UNCHANGED <<prog, out>>

OpSTOP ==
    /\ Fetched("STOP")
    /\ Leave(pc + SizeOpcode, stack, "stopped")
    /\ UNCHANGED <<prog, out>>

Run ==
    \/ OpPUSH_FUNC \/ OpPUSH_PROTO \/ OpPEEK \/ OpPOP \/ OpCALL
    \/ OpADD \/ OpSUB \/ OpMUL \/ OpDIV \/ OpMOD
    \/ OpEQ \/ OpNEQ \/ OpLEQ \/ OpGREQ \/ OpLE \/ OpGR
    \/ OpNEG \/ OpNOT \/ OpRET \/ OpJUMP_FALSE \/ OpJUMP
    \/ OpPUSH_INT \/ OpPUSH_BOOL \/ OpPUSH_STRING \/ OpSTOP


(***************************************************************************)
(* The instruction streams the machine is run on.  Every stream starts on  *)
(* the empty stack, keeps its jump targets on instruction boundaries and   *)
(* never pops below the stack's bottom.                                    *)
(***************************************************************************)
\* The values a stream can push.  An address is written as a label; label 1
\* is the first instruction.
Lits ==
    {IntV(i) : i \in IntVals} \cup {BoolV(b) : b \in BOOLEAN}
    \cup {AddrV(1)} \cup {ProtoV(f) : f \in kRuntimeFns}

NonAddrLits == {v \in Lits : v.k # "ADDR"}

PushOf(v) ==
    CASE v.k = "INT" -> <<"PUSH_INT", v.v>>
      [] v.k = "BOOL" -> <<"PUSH_BOOL", v.v>>
      [] v.k = "ADDR" -> <<"PUSH_FUNC", v.v>>
      [] v.k = "PROTO" -> <<"PUSH_PROTO", v.v>>

BinaryOps == {"ADD", "SUB", "MUL", "DIV", "MOD", "EQ", "NEQ", "LEQ", "GREQ", "LE", "GR"}
UnaryOps == {"NEG", "NOT", "POP", "PUSH_STRING"}

\* The integer pushed below everything else, to stand for the caller's stack.
BaseInt == MaxInt + 5

BinaryCode(a, b, o) == <<<<"PUSH_INT", BaseInt>>, PushOf(a), PushOf(b), <<o>>, <<"STOP">>>>
UnaryCode(a, o) == <<<<"PUSH_INT", BaseInt>>, PushOf(a), <<o>>, <<"STOP">>>>
PeekCode(a, b, k) == <<PushOf(a), PushOf(b), <<"PEEK", k>>, <<"STOP">>>>

\* if (c) push 1 else push 2
BranchCode(c) ==
    <<<<"PUSH_INT", BaseInt>>, PushOf(c), <<"JUMP_FALSE", 6>>, <<"PUSH_INT", 1>>,
      <<"STOP">>, <<"PUSH_INT", 2>>, <<"STOP">>>>

\* while (n > 0) n = n - 1
LoopCode(n) ==
    <<<<"PUSH_INT", n>>, <<"PEEK", 0>>, <<"PUSH_INT", 0>>, <<"GR">>,
      <<"JUMP_FALSE", 9>>, <<"PUSH_INT", 1>>, <<"SUB">>, <<"JUMP", 2>>, <<"STOP">>>>

\* A call of something that is not a function, with one argument a.
CallValueCode(a, callee) ==
    <<<<"PUSH_INT", BaseInt>>, PushOf(a), PushOf(callee), <<"CALL">>, <<"STOP">>>>

\* A call of a function with na arguments and nl locals on nb caller slots,
\* which returns rv.
CallRetCode(nb, na, nl, rv) ==
    [i \in 1..nb |-> <<"PUSH_INT", 100 + i>>]
    \o [i \in 1..na |-> <<"PUSH_INT", 10 + i>>]
    \o <<<<"PUSH_FUNC", nb + na + 4>>, <<"CALL">>, <<"STOP">>>>
    \o [i \in 1..nl |-> <<"PUSH_INT", 20 + i>>]
    \o <<PushOf(rv), <<"RET", nl, na>>>>

\* A RET that finds x where the return address should be.
RetValueCode(x, rv) ==
    <<<<"PUSH_INT", BaseInt>>, PushOf(x), PushOf(rv), <<"RET", 0, 0>>, <<"STOP">>>>

\* func fact(n) { if (n <= 1) return 1; else return n * fact(n - 1); }  fact(n)
FactCode(n) ==
    <<<<"PUSH_INT", n>>, <<"PUSH_FUNC", 5>>, <<"CALL">>, <<"STOP">>,
      <<"PEEK", 1>>, <<"PUSH_INT", 1>>, <<"LEQ">>, <<"JUMP_FALSE", 11>>,
      <<"PUSH_INT", 1>>, <<"RET", 0, 1>>,
      <<"PEEK", 1>>, <<"PEEK", 2>>, <<"PUSH_INT", 1>>, <<"SUB">>,
      <<"PUSH_FUNC", 5>>, <<"CALL">>, <<"MUL">>, <<"RET", 0, 1>>>>

FactProg == [n \in 0..MaxFact |-> Assemble(FactCode(n))]

Listings ==
    {BinaryCode(a, b, o) : a \in Lits, b \in Lits, o \in BinaryOps}
    \cup {UnaryCode(a, o) : a \in Lits, o \in UnaryOps}
    \cup {PeekCode(a, b, k) : a \in Lits, b \in Lits, k \in 0..1}
    \cup {BranchCode(c) : c \in Lits}
    \cup {LoopCode(n) : n \in 0..MaxInt}
    \cup {CallValueCode(a, callee) : a \in Lits, callee \in NonAddrLits}
    \cup {CallRetCode(nb, na, nl, rv) :
            nb \in 0..1, na \in 0..MaxArgs, nl \in 0..MaxLocals, rv \in Lits}
    \cup {RetValueCode(x, rv) : x \in NonAddrLits, rv \in Lits}
    \cup {FactCode(n) : n \in 0..MaxFact}

Programs == {Assemble(code) : code \in Listings}

(***************************************************************************)
(* Interp(prog): pc_ = 0, the stack empty; then Run().                     *)
(***************************************************************************)
Init ==
    /\ prog \in Programs
    /\ pc = 0
    /\ stack = <<>>
    /\ status = "running"
    /\ out = <<>>
    /\ toks = <<>>
    /\ tokpos = 1
    /\ ast = NoNode
    /\ pstatus = "idle"
    /\ lex = NoLexer

Next == Run

Spec == Init /\ [][Next]_vars


(***************************************************************************)
(* Vocabulary of the properties.                                           *)
(***************************************************************************)
\* The opcode Run is about to execute, "none" when it executes nothing.
CurOp ==
    IF status = "running" /\ pc \in DOMAIN prog /\ prog[pc].t = "op"
    THEN prog[pc].v
    ELSE "none"

\* Operand j (1 or 2) of the instruction at pc.
CurArg(j) == prog[pc + SizeOpcode + (j - 1) * SizeUnsigned].v

\* The ways Run is left other than by STOP.
Errors == {"RuntimeError", "logic_error", "length_error", "trap", "wild"}

IsPrefix(s, t) == Len(s) <= Len(t) /\ SubSeq(t, 1, Len(s)) = s

TopIs(kinds) == stack # <<>> /\ Top(stack).k \in kinds
TwoInts ==
    /\ Len(stack) >= 2
    /\ Top(stack).k = "INT"
    /\ stack[Len(stack) - 1].k = "INT"

RECURSIVE Factorial(_)
Factorial(n) == IF n <= 1 THEN 1 ELSE n * Factorial(n - 1)

CallRetProg ==
    [nb \in 0..1, na \in 0..MaxArgs, nl \in 0..MaxLocals, rv \in Lits |->
        Assemble(CallRetCode(nb, na, nl, rv))]

\* The value a stream pushes for the literal v (a label becomes its address).
Pushed(code, v) == IF v.k = "ADDR" THEN AddrV(Offset(code, v.v)) ELSE v

(***************************************************************************)
(* C1: CALL of a code address pushes the address of the instruction after  *)
(* the CALL and jumps to the callee; RET depth nargs on a stack holding    *)
(* (from the top) the return value, depth locals, the saved return address *)
(* and nargs arguments continues at the saved address with the arguments   *)
(* removed and the return value on top; so a call returns to the           *)
(* instruction after its CALL with the caller's stack plus the result.     *)
(***************************************************************************)
C1_Call ==
    (CurOp = "CALL" /\ TopIs({"ADDR"})) =>
        /\ pc' = Top(stack).v
        /\ stack' = Append(Drop(stack, 1), AddrV(pc + SizeOpcode))
        /\ status' = "running"

C1_Ret ==
    CurOp = "RET" =>
        LET depth == CurArg(1)
            nargs == CurArg(2)
            slot == Len(stack) - 1 - depth
        IN  (slot >= 1 + nargs /\ stack[slot].k = "ADDR") =>
                /\ pc' = stack[slot].v
                /\ stack' = Append(SubSeq(stack, 1, slot - 1 - nargs), Top(stack))
                /\ status' = "running"

C1_Returned ==
    \A nb \in 0..1, na \in 0..MaxArgs, nl \in 0..MaxLocals, rv \in Lits :
        LET code == CallRetCode(nb, na, nl, rv)
        IN  (prog = CallRetProg[nb, na, nl, rv] /\ pc = Offset(code, nb + na + 3)) =>
                /\ status = "running"
                /\ stack = [i \in 1..nb |-> IntV(100 + i)] \o <<Pushed(code, rv)>>

C1_CallRetProtocol == [][C1_Call /\ C1_Ret]_vars /\ []C1_Returned

C1_Witness ==
    /\ prog = CallRetProg[1, 2, 2, IntV(1)]
    /\ status = "stopped"
    /\ stack = <<IntV(101), IntV(1)>>

(***************************************************************************)
(* C2: fact(n) run under the CALL/RET convention stops with n! as the only *)
(* value on the stack (120 for n = 5), and after every RET the stack depth *)
(* is what it was before that call's argument and callee were pushed, plus *)
(* one for the return value.                                               *)
(***************************************************************************)
FactAddr(i) == Offset(FactCode(0), i)

C2_FactBalanced ==
    \A n \in 0..MaxFact :
        prog = FactProg[n] =>
            /\ status \in {"running", "stopped"}
            /\ status = "stopped" => stack = <<IntV(Factorial(n))>>
            \* the outer call has returned: depth 0 before it, 1 after
            /\ pc = FactAddr(4) => stack = <<IntV(Factorial(n))>>
            \* in fact(k), before the argument of the recursive call is pushed
            /\ pc = FactAddr(12) =>
                    /\ Top(stack).k = "INT"
                    /\ Len(stack) = 3 * (n - Top(stack).v + 1)
            \* in fact(k), after the recursive call has returned
            /\ pc = FactAddr(17) =>
                    LET k == stack[Len(stack) - 1]
                    IN  /\ k.k = "INT"
                        /\ Len(stack) = 3 * (n - k.v + 1) + 1
                        /\ Top(stack) = IntV(Factorial(k.v - 1))

C2_Witness ==
    /\ prog = FactProg[5]
    /\ status = "stopped"
    /\ stack = <<IntV(120)>>

(***************************************************************************)
(* C3: CALL on an integer, boolean or string raises a RuntimeError: no     *)
(* jump, no primitive runs, and the slots below the callee are unchanged.  *)
(***************************************************************************)
C3_CallNonCallable ==
    [][(CurOp = "CALL" /\ TopIs({"INT", "BOOL", "STRING"})) =>
            /\ status' = "RuntimeError"
            /\ stack' = Drop(stack, 1)
            /\ pc' = pc + SizeOpcode
            /\ out' = out]_vars

C3_Witness ==
    /\ prog = Assemble(CallValueCode(IntV(1), IntV(2)))
    /\ status = "RuntimeError"
    /\ stack = <<IntV(BaseInt), IntV(1)>>


(***************************************************************************)
(* C4: an arithmetic or comparison instruction on two integers pops the    *)
(* right operand, then the left, and pushes lhs op rhs in their place, the *)
(* slots below unchanged.  As stated for every pair of integers it fails:  *)
(* DIV and MOD by zero are not checked and push nothing reliable.          *)
(***************************************************************************)
Expected(o, l, r) ==
    CASE o = "ADD" -> IntV(l + r)
      [] o = "SUB" -> IntV(l - r)
      [] o = "MUL" -> IntV(l * r)
      [] o = "DIV" -> IntV(CDiv(l, r))
      [] o = "MOD" -> IntV(CMod(l, r))
      [] o = "EQ" -> BoolV(l = r)
      [] o = "NEQ" -> BoolV(l # r)
      [] o = "LE" -> BoolV(l < r)
      [] o = "GR" -> BoolV(l > r)
      [] o = "LEQ" -> BoolV(l <= r)
      [] o = "GREQ" -> BoolV(l >= r)

Lhs == stack[Len(stack) - 1].v
Rhs == Top(stack).v

WrongTag ==
    \/ /\ CurOp \in BinaryOps
       /\ Len(stack) >= 2
       /\ ~TwoInts
    \/ CurOp = "NEG" /\ stack # <<>> /\ ~TopIs({"INT"})
    \/ CurOp = "NOT" /\ stack # <<>> /\ ~TopIs({"BOOL"})

C5_WrongTagAborts ==
    [][/\ status # "RuntimeError"
       /\ WrongTag =>
            /\ status' = "RuntimeError"
            /\ IsPrefix(stack', stack)]_vars

C5_Witness ==
    /\ prog = Assemble(BinaryCode(BoolV(TRUE), BoolV(TRUE), "EQ"))
    /\ status = "RuntimeError"
    /\ IsPrefix(stack, <<IntV(BaseInt), BoolV(TRUE)>>)

(***************************************************************************)
(* C6: JUMP_FALSE addr on a boolean pops it; false continues at addr, true *)
(* at the instruction after the operand; nothing else on the stack moves.  *)
(***************************************************************************)
C6_JumpFalse ==
    [][(CurOp = "JUMP_FALSE" /\ TopIs({"BOOL"})) =>
            /\ pc' = IF Top(stack).v THEN pc + SizeOpcode + SizeAddr ELSE CurArg(1)
            /\ stack' = Drop(stack, 1)
            /\ status' = "running"]_vars

C6_Witness ==
    /\ prog = Assemble(BranchCode(BoolV(FALSE)))
    /\ status = "stopped"
    /\ stack = <<IntV(BaseInt), IntV(2)>>

(***************************************************************************)
(* C7: JUMP_FALSE on a value that is not a boolean raises a RuntimeError.  *)
(* The handler pops with Pop(), which checks no tag, so this fails.        *)
(***************************************************************************)
C7_JumpFalseChecksTag ==
    [][(CurOp = "JUMP_FALSE" /\ stack # <<>> /\ ~TopIs({"BOOL"})) =>
            status' = "RuntimeError"]_vars

(***************************************************************************)
(* C8: PUSH_STRING aborts execution and leaves the stack unchanged.  As    *)
(* stated the error is a RuntimeError; the handler throws std::logic_error.*)
(***************************************************************************)
\* C8 as stated.
C8_RaisesRuntimeError ==
    [][CurOp = "PUSH_STRING" => (status' = "RuntimeError" /\ stack' = stack)]_vars

\* C8 amended: the error is a std::logic_error, and nothing executes after it.
C8_RaisesLogicError ==
    [][/\ status # "logic_error"
       /\ CurOp = "PUSH_STRING" => (status' = "logic_error" /\ stack' = stack)]_vars

C8_Witness ==
    /\ prog = Assemble(UnaryCode(IntV(1), "PUSH_STRING"))
    /\ status = "logic_error"
    /\ stack = <<IntV(BaseInt), IntV(1)>>

(***************************************************************************)
(* C9: each step of Run executes the instruction at pc; the loop is left   *)
(* by STOP or by an error and by nothing else; after any other instruction *)
(* Run goes on at the pc that instruction dictates.                        *)
(***************************************************************************)
C9_Step ==
    /\ CurOp # "none"
    /\ status' \in {"running"} \cup Errors \cup (IF CurOp = "STOP" THEN {"stopped"} ELSE {})
    /\ CurOp = "STOP" => status' = "stopped"
    /\ status' = "running" =>
            CASE CurOp = "JUMP" -> pc' = CurArg(1)
              [] CurOp = "JUMP_FALSE" -> pc' \in {CurArg(1), pc + SizeOpcode + SizeAddr}
              [] CurOp = "CALL" ->
                    pc' = IF Top(stack).k = "ADDR" THEN Top(stack).v ELSE pc + SizeOpcode
              [] CurOp = "RET" -> pc' = stack[Len(stack) - 1 - CurArg(1)].v
              [] OTHER -> pc' = pc + InstrSize(<<CurOp>>)

C9_FetchExecute == [][C9_Step]_vars

C9_Witness ==
    /\ prog = Assemble(LoopCode(2))
    /\ status = "stopped"
    /\ stack = <<IntV(0)>>


(***************************************************************************)
(* The parser (src/parser.cpp).  It pulls tokens from the Lexer: ts is the *)
(* token stream, pos the Lexer's place in it (Current() is token pos,      *)
(* lexer_.Next() moves to pos + 1), and past the last token the Lexer      *)
(* yields END for ever.  A parse function returns [st, node, pos]: st is   *)
(* "ok", or "ParserError" with pos at the offending token, or              *)
(* "stack_overflow" when the recursion does not end; fuel is the call      *)
(* depth left.                                                             *)
(***************************************************************************)
\* A token: its kind, and the value an INT or the text an IDENT or STRING holds.
Tok(kind) == [kind |-> kind, int |-> 0, str |-> ""]
IntTok(n) == [kind |-> "INT", int |-> n, str |-> ""]
IdentTok(name) == [kind |-> "IDENT", int |-> 0, str |-> name]
StringTok(str) == [kind |-> "STRING", int |-> 0, str |-> str]

Current(ts, pos) == IF pos <= Len(ts) THEN ts[pos] ELSE Tok("END")

\* The AST nodes (src/ast.h).
IntExpr(val) == [e |-> "INTEGER", val |-> val]
BoolExpr(val) == [e |-> "BOOL", val |-> val]
StringExpr(str) == [e |-> "STRING", val |-> str]
RefExpr(name) == [e |-> "REF", name |-> name]
BinaryExpr(kind, lhs, rhs) == [e |-> "BINARY", kind |-> kind, lhs |-> lhs, rhs |-> rhs]
UnaryExpr(kind, operand) == [e |-> "UNARY", kind |-> kind, operand |-> operand]
CallExpr(callee, args) == [e |-> "CALL", callee |-> callee, args |-> args]
ExprStmt(expr) == [s |-> "EXPR", expr |-> expr]

Ok(node, pos) == [st |-> "ok", node |-> node, pos |-> pos]
\* Parser::Error: throw ParserError(loc, msg)
Error(pos) == [st |-> "ParserError", node |-> NoNode, pos |-> pos]
Overflow(pos) == [st |-> "stack_overflow", node |-> NoNode, pos |-> pos]

\* A result r carried through the statements that follow it: once an
\* exception is thrown (r.st is not "ok") nothing more is done.

\* Parser::Check: the current token must be of the given kind.
Check(ts, r, kind) ==
    IF r.st # "ok" THEN r
    ELSE IF Current(ts, r.pos).kind # kind THEN Error(r.pos)
    ELSE r

\* lexer_.Next()
Advance(r) == IF r.st # "ok" THEN r ELSE Ok(r.node, r.pos + 1)

\* std::make_shared<BinaryExpr>(kind, lhs, rhs), lhs a node and rhs a result
MakeBinary(kind, lhs, rhs) ==
    IF rhs.st # "ok" THEN rhs ELSE Ok(BinaryExpr(kind, lhs, rhs.node), rhs.pos)

\* std::make_shared<UnaryExpr>(kind, operand)
MakeUnary(kind, operand) ==
    IF operand.st # "ok" THEN operand ELSE Ok(UnaryExpr(kind, operand.node), operand.pos)

\* std::make_shared<CallExpr>(callee, std::move(args))
MakeCall(callee, args) ==
    IF args.st # "ok" THEN args ELSE Ok(CallExpr(callee, args.node), args.pos)

RECURSIVE ParseExpr(_, _, _)
RECURSIVE ParseUnaryExpr(_, _, _)
RECURSIVE ArgumentLoop(_, _, _, _)
RECURSIVE MulDivLoop(_, _, _)
RECURSIVE MulDivLoop_AlsoAdditive(_, _, _)
RECURSIVE AddSubLoop(_, _, _)
RECURSIVE AddSubLoop_RightAssoc(_, _, _)
RECURSIVE ComparisonLoop(_, _, _)
RECURSIVE EqualityLoop(_, _, _)

ParseTermExpr(ts, pos, fuel) ==
    LET tk == Current(ts, pos)
    IN  CASE tk.kind = "INT" -> Ok(IntExpr(tk.int), pos + 1)
          [] tk.kind = "TRUE" -> Ok(BoolExpr(TRUE), pos + 1)
          [] tk.kind = "FALSE" -> Ok(BoolExpr(FALSE), pos + 1)
          [] tk.kind = "STRING" -> Ok(StringExpr(tk.str), pos + 1)
          [] tk.kind = "IDENT" -> Ok(RefExpr(tk.str), pos + 1)
          [] tk.kind = "LPAREN" ->
                Advance(Check(ts, ParseExpr(ts, pos + 1, fuel), "RPAREN"))
          [] OTHER -> Error(pos)

\* The body of the loop of ParseArgumentList once its argument is parsed:
\* args.push_back(arg); if (!Current().Is(COMMA)) break;
ArgumentNext(ts, args, arg, fuel) ==
    IF arg.st # "ok" THEN arg
    ELSE IF Current(ts, arg.pos).kind # "COMMA" THEN Ok(Append(args, arg.node), arg.pos)
    ELSE ArgumentLoop(ts, Append(args, arg.node), arg.pos, fuel)

\* while (!lexer_.Next().Is(RPAREN)) { ... }; pos is the token before the
\* one the loop condition moves to, and the result's node is the list.
ArgumentLoop(ts, args, pos, fuel) ==
    IF Current(ts, pos + 1).kind = "RPAREN" THEN Ok(args, pos + 1)
    ELSE ArgumentNext(ts, args, ParseExpr(ts, pos + 1, fuel), fuel)

ParseArgumentList(ts, callee, pos, fuel) ==
    MakeCall(callee, Advance(Check(ts, ArgumentLoop(ts, <<>>, pos, fuel), "RPAREN")))

\* ParseCallExpr once its term is parsed.
CallOrTerm(ts, expr, fuel) ==
    IF expr.st # "ok" THEN expr
    ELSE IF Current(ts, expr.pos).kind = "LPAREN"
         THEN ParseArgumentList(ts, expr.node, expr.pos, fuel)
         ELSE expr

ParseCallExpr(ts, pos, fuel) == CallOrTerm(ts, ParseTermExpr(ts, pos, fuel), fuel)

\* Neither case moves the Lexer past the operator before it calls itself.
ParseUnaryExpr(ts, pos, fuel) ==
    IF fuel = 0 THEN Overflow(pos)
    ELSE CASE Current(ts, pos).kind = "BANG" ->
                MakeUnary("NOT", ParseUnaryExpr(ts, pos, fuel - 1))
           [] Current(ts, pos).kind = "MINUS" ->
                MakeUnary("NEG", ParseUnaryExpr(ts, pos, fuel - 1))
           [] OTHER -> ParseCallExpr(ts, pos, fuel - 1)

\* The node kind of a binary operator token.
BinaryKind(kind) ==
    CASE kind = "STAR" -> "MUL"
      [] kind = "SLASH" -> "DIV"
      [] kind = "PLUS" -> "ADD"
      [] kind = "MINUS" -> "SUB"
      [] kind = "EQEQ" -> "EQ"
      [] OTHER -> kind

\* The while loop of ParseMulDivExpr; lhs is the result parsed so far.
MulDivLoop(ts, lhs, fuel) ==
    IF lhs.st # "ok" THEN lhs
    ELSE LET kind == Current(ts, lhs.pos).kind
         IN  IF kind \in {"STAR", "SLASH", "MOD"}
             THEN MulDivLoop(ts, MakeBinary(BinaryKind(kind), lhs.node,
                                            ParseUnaryExpr(ts, lhs.pos + 1, fuel)), fuel)
             ELSE lhs

\* Mutant: the multiplicative loop also takes + and -, as one level.
MulDivLoop_AlsoAdditive(ts, lhs, fuel) ==
    IF lhs.st # "ok" THEN lhs
    ELSE LET kind == Current(ts, lhs.pos).kind
         IN  IF kind \in {"STAR", "SLASH", "MOD", "PLUS", "MINUS"}
             THEN MulDivLoop_AlsoAdditive(ts, MakeBinary(BinaryKind(kind), lhs.node,
                                              ParseUnaryExpr(ts, lhs.pos + 1, fuel)), fuel)
             ELSE lhs

ParseMulDivExpr_AlsoAdditive(ts, pos, fuel) ==
    MulDivLoop_AlsoAdditive(ts, ParseUnaryExpr(ts, pos, fuel), fuel)

ParseMulDivExpr(ts, pos, fuel) == MulDivLoop(ts, ParseUnaryExpr(ts, pos, fuel), fuel)

\* Mutant: the additive loop parses everything to its right as the right
\* operand, grouping to the right.
AddSubLoop_RightAssoc(ts, lhs, fuel) ==
    IF lhs.st # "ok" THEN lhs
    ELSE LET kind == Current(ts, lhs.pos).kind
         IN  IF kind \in {"PLUS", "MINUS"}
             THEN MakeBinary(BinaryKind(kind), lhs.node,
                             AddSubLoop_RightAssoc(ts, ParseMulDivExpr(ts, lhs.pos + 1, fuel),
                                                   fuel))
             ELSE lhs

\* The while loop of ParseAddSubExpr.
AddSubLoop(ts, lhs, fuel) ==
    IF lhs.st # "ok" THEN lhs
    ELSE LET kind == Current(ts, lhs.pos).kind
         IN  IF kind \in {"PLUS", "MINUS"}
             THEN AddSubLoop(ts, MakeBinary(BinaryKind(kind), lhs.node,
                                            ParseMulDivExpr(ts, lhs.pos + 1, fuel)), fuel)
             ELSE lhs

ParseAddSubExpr(ts, pos, fuel) == AddSubLoop(ts, ParseMulDivExpr(ts, pos, fuel), fuel)

\* The while loop of ParseComparisonExpr.
ComparisonLoop(ts, lhs, fuel) ==
    IF lhs.st # "ok" THEN lhs
    ELSE LET kind == Current(ts, lhs.pos).kind
         IN  IF kind \in {"GR", "GREQ", "LE", "LEQ"}
             THEN ComparisonLoop(ts, MakeBinary(BinaryKind(kind), lhs.node,
                                                ParseAddSubExpr(ts, lhs.pos + 1, fuel)), fuel)
             ELSE lhs

ParseComparisonExpr(ts, pos, fuel) ==
    ComparisonLoop(ts, ParseAddSubExpr(ts, pos, fuel), fuel)

\* The while loop of ParseEqualityExpr.
EqualityLoop(ts, lhs, fuel) ==
    IF lhs.st # "ok" THEN lhs
    ELSE LET kind == Current(ts, lhs.pos).kind
         IN  IF kind \in {"EQEQ", "NEQ"}
             THEN EqualityLoop(ts, MakeBinary(BinaryKind(kind), lhs.node,
                                              ParseComparisonExpr(ts, lhs.pos + 1, fuel)), fuel)
             ELSE lhs

ParseEqualityExpr(ts, pos, fuel) ==
    EqualityLoop(ts, ParseComparisonExpr(ts, pos, fuel), fuel)

ParseExpr(ts, pos, fuel) ==
    IF fuel = 0 THEN Overflow(pos) ELSE ParseEqualityExpr(ts, pos, fuel - 1)

\* The kinds on which ParseStmt does not parse an expression statement.
StmtKeywords == {"RETURN", "WHILE", "IF", "LET", "LBRACE"}

\* ParseStmt, default case: return std::make_shared<ExprStmt>(ParseExpr())
ParseExprStmt ==
    /\ pstatus = "ready"
    /\ Current(toks, tokpos).kind \notin StmtKeywords
    /\ LET expr == ParseExpr(toks, tokpos, MaxCallDepth)
       IN  /\ pstatus' = expr.st
           /\ tokpos' = expr.pos
           /\ ast' = IF expr.st = "ok" THEN ExprStmt(expr.node) ELSE NoNode
    /\ UNCHANGED <<toks, vmVars, lex>>

(***************************************************************************)
(* The token streams the parser is run on: chains of integer literals      *)
(* joined by binary operators, and every short stream over the tokens of   *)
(* expressions.                                                            *)
(***************************************************************************)
BinaryToks ==
    {"EQEQ", "NEQ", "GR", "GREQ", "LE", "LEQ", "PLUS", "MINUS", "STAR", "SLASH", "MOD"}

\* 2 op[1] 3 op[2] 4 ...
Chain(ops) ==
    [i \in 1..(2 * Len(ops) + 1) |->
        IF i % 2 = 1 THEN IntTok((i + 1) \div 2 + 1) ELSE Tok(ops[i \div 2])]

Chains == UNION {{Chain(ops) : ops \in [1..n -> BinaryToks]} : n \in 1..MaxOps}

ExprToks ==
    {IntTok(1), IdentTok("x"), Tok("PLUS"), Tok("STAR"), Tok("MINUS"), Tok("BANG"),
     Tok("LPAREN"), Tok("RPAREN"), Tok("COMMA"), Tok("EQEQ")}

ShortStreams == UNION {[1..n -> ExprToks] : n \in 0..MaxToks}

TokenStreams == Chains \cup ShortStreams

\* Parser(lexer): the Lexer has read its first token.
InitParse ==
    /\ toks \in TokenStreams
    /\ tokpos = 1
    /\ ast = NoNode
    /\ pstatus = "ready"
    /\ lex = NoLexer
    /\ prog = Assemble(<<<<"STOP">>>>)
    /\ pc = 0
    /\ stack = <<>>
    /\ status = "idle"
    /\ out = <<>>

NextParse == ParseExprStmt

SpecParse == InitParse /\ [][NextParse]_vars


(***************************************************************************)
(* Statements and top-level items.                                         *)
(***************************************************************************)
\* The statement and declaration nodes (src/ast.h).  An absent false
\* branch is the null pointer, NoNode.
BlockStmt(body) == [s |-> "BLOCK", body |-> body]
ReturnStmt(expr) == [s |-> "RETURN", expr |-> expr]
WhileStmt(cond, stmt) == [s |-> "WHILE", cond |-> cond, stmt |-> stmt]
IfStmt(cond, ifTrue, ifFalse) == [s |-> "IF", cond |-> cond, tstmt |-> ifTrue, fstmt |-> ifFalse]
VarDeclStmt(name, type, expr) == [s |-> "VARDECL", name |-> name, type |-> type, expr |-> expr]
ProtoDecl(name, args, type, primitive) ==
    [s |-> "PROTO", name |-> name, args |-> args, type |-> type, primitive |-> primitive]
FuncDecl(name, args, type, body) ==
    [s |-> "FUNC", name |-> name, args |-> args, type |-> type, body |-> body]
Module(body) == [s |-> "MODULE", body |-> body]

\* Parser::Expect: lexer_.Next(); return Check(kind)
Expect(ts, r, kind) == Check(ts, Advance(r), kind)

\* The parser standing at token pos, nothing parsed yet.
At(pos) == Ok(NoNode, pos)

\* std::make_shared of a statement whose last part is the result given;
\* an exception thrown while that part was parsed goes through.
MakeExprStmt(expr) == IF expr.st # "ok" THEN expr ELSE Ok(ExprStmt(expr.node), expr.pos)
MakeReturn(expr) == IF expr.st # "ok" THEN expr ELSE Ok(ReturnStmt(expr.node), expr.pos)
MakeBlock(body) == IF body.st # "ok" THEN body ELSE Ok(BlockStmt(body.node), body.pos)
MakeWhile(cond, stmt) ==
    IF stmt.st # "ok" THEN stmt ELSE Ok(WhileStmt(cond, stmt.node), stmt.pos)
MakeIf(cond, tstmt, fstmt) ==
    IF fstmt.st # "ok" THEN fstmt ELSE Ok(IfStmt(cond, tstmt, fstmt.node), fstmt.pos)
MakeVarDecl(name, type, expr) ==
    IF expr.st # "ok" THEN expr ELSE Ok(VarDeclStmt(name, type, expr.node), expr.pos)

RECURSIVE ParseStmt(_, _, _)
RECURSIVE BlockLoop(_, _, _, _)

\* Mutant: a statement that no semicolon follows does not end the loop;
\* the next statement starts at the token after it.
BlockNext_NoBreak(ts, body, stmt, fuel) ==
    IF stmt.st # "ok" THEN stmt
    ELSE IF Current(ts, stmt.pos).kind # "SEMI"
         THEN BlockLoop(ts, Append(body, stmt.node), stmt.pos - 1, fuel)
         ELSE BlockLoop(ts, Append(body, stmt.node), stmt.pos, fuel)

\* The body of the loop of ParseBlockStmt once its statement is parsed:
\* body.push_back(stmt); if (!Current().Is(SEMI)) break;
BlockNext(ts, body, stmt, fuel) ==
    IF stmt.st # "ok" THEN stmt
    ELSE IF Current(ts, stmt.pos).kind # "SEMI" THEN Ok(Append(body, stmt.node), stmt.pos)
    ELSE BlockLoop(ts, Append(body, stmt.node), stmt.pos, fuel)

\* while (!lexer_.Next().Is(RBRACE)) { ... }; pos is the token before the
\* one the loop condition moves to, and the result's node is the body
\* collected when the loop is left.
BlockLoop(ts, body, pos, fuel) ==
    IF Current(ts, pos + 1).kind = "RBRACE" THEN Ok(body, pos + 1)
    ELSE BlockNext(ts, body, ParseStmt(ts, pos + 1, fuel), fuel)

ParseBlockStmt(ts, pos, fuel) ==
    IF Current(ts, pos).kind # "LBRACE" THEN Error(pos)
    ELSE MakeBlock(Advance(Check(ts, BlockLoop(ts, <<>>, pos, fuel), "RBRACE")))

ParseReturnStmt(ts, pos, fuel) ==
    IF Current(ts, pos).kind # "RETURN" THEN Error(pos)
    ELSE MakeReturn(ParseExpr(ts, pos + 1, fuel))

\* lexer_.Next(); cond = ParseExpr(); Check(RPAREN); lexer_.Next(), with
\* open the result of the Expect(LPAREN) before it.
Condition(ts, open, fuel) ==
    IF open.st # "ok" THEN open
    ELSE Advance(Check(ts, ParseExpr(ts, open.pos + 1, fuel), "RPAREN"))

\* ParseWhileStmt once its condition is parsed.
WhileBody(ts, cond, fuel) ==
    IF cond.st # "ok" THEN cond ELSE MakeWhile(cond.node, ParseStmt(ts, cond.pos, fuel))

ParseWhileStmt(ts, pos, fuel) ==
    WhileBody(ts, Condition(ts, Expect(ts, Check(ts, At(pos), "WHILE"), "LPAREN"), fuel), fuel)

\* Mutant: an if whose true branch is not itself an if leaves the else
\* to the if around it.
IfElse_ElseToOuter(ts, cond, tstmt, fuel) ==
    IF tstmt.st # "ok" THEN tstmt
    ELSE IF Current(ts, tstmt.pos).kind # "ELSE" \/ tstmt.node.s # "IF"
         THEN Ok(IfStmt(cond, tstmt.node, NoNode), tstmt.pos)
         ELSE MakeIf(cond, tstmt.node, ParseStmt(ts, tstmt.pos + 1, fuel))

\* ParseIfStmt once its true branch is parsed.
IfElse(ts, cond, tstmt, fuel) ==
    IF tstmt.st # "ok" THEN tstmt
    ELSE IF Current(ts, tstmt.pos).kind # "ELSE"
         THEN Ok(IfStmt(cond, tstmt.node, NoNode), tstmt.pos)
         ELSE MakeIf(cond, tstmt.node, ParseStmt(ts, tstmt.pos + 1, fuel))

\* ParseIfStmt once its condition is parsed.
IfTrue(ts, cond, fuel) ==
    IF cond.st # "ok" THEN cond ELSE IfElse(ts, cond.node, ParseStmt(ts, cond.pos, fuel), fuel)

ParseIfStmt(ts, pos, fuel) ==
    IfTrue(ts, Condition(ts, Expect(ts, Check(ts, At(pos), "IF"), "LPAREN"), fuel), fuel)

\* The semicolon is checked and left as the current token.
ParseVarDeclStmt(ts, pos, fuel) ==
    LET name == Expect(ts, Check(ts, At(pos), "LET"), "IDENT")
        type == Expect(ts, Expect(ts, name, "COLON"), "IDENT")
        eq == Advance(Expect(ts, type, "EQ"))
    IN  IF eq.st # "ok" THEN eq
        ELSE MakeVarDecl(Current(ts, name.pos).str, Current(ts, type.pos).str,
                         Check(ts, ParseExpr(ts, eq.pos, fuel), "SEMI"))

ParseStmt(ts, pos, fuel) ==
    LET kind == Current(ts, pos).kind
    IN  CASE kind = "RETURN" -> ParseReturnStmt(ts, pos, fuel)
          [] kind = "WHILE" -> ParseWhileStmt(ts, pos, fuel)
          [] kind = "IF" -> ParseIfStmt(ts, pos, fuel)
          [] kind = "LET" -> ParseVarDeclStmt(ts, pos, fuel)
          [] kind = "LBRACE" -> ParseBlockStmt(ts, pos, fuel)
          [] OTHER -> MakeExprStmt(ParseExpr(ts, pos, fuel))

(***************************************************************************)
(* ParseModule.  One step is one turn of its loop: a function item, a      *)
(* top-level statement, or the end of the stream.  While it runs, ast is   *)
(* the Module of the items pushed on body so far; an exception leaves no   *)
(* Module.                                                                 *)
(***************************************************************************)
\* Token::GetIdent on a token that is not an identifier reads a payload the
\* token does not have: the build aborts, or goes on with a text that is
\* not the source's.
UBOutcomes == {"abort", "garbage"}

Abort(pos) == [st |-> "abort", node |-> NoNode, pos |-> pos]

GetIdent(tk) == IF tk.kind = "IDENT" THEN tk.str ELSE "<garbage>"

RECURSIVE ParamLoop(_, _, _, _)
\* while (!lexer_.Next().Is(RPAREN)) { arg = Current().GetIdent();
\*     Expect(COLON); type = Expect(IDENT).GetIdent(); args.emplace_back(arg, type);
\*     if (!lexer_.Next().Is(COMMA)) break; }
\* pos is the token before the one the loop condition moves to.
ParamLoop(ts, args, pos, ub) ==
    IF Current(ts, pos + 1).kind = "RPAREN" THEN Ok(args, pos + 1)
    ELSE IF Current(ts, pos + 1).kind # "IDENT" /\ ub = "abort" THEN Abort(pos + 1)
    ELSE LET type == Expect(ts, Expect(ts, At(pos + 1), "COLON"), "IDENT")
             arg == <<GetIdent(Current(ts, pos + 1)), Current(ts, type.pos).str>>
         IN  IF type.st # "ok" THEN type
             ELSE IF Current(ts, type.pos + 1).kind # "COMMA"
                  THEN Ok(Append(args, arg), type.pos + 1)
                  ELSE ParamLoop(ts, Append(args, arg), type.pos + 1, ub)

\* func name ( args ) : type, and the move to the token after the type.
\* The node is the signature.
ParseSignature(ts, pos, ub) ==
    LET name == Expect(ts, At(pos), "IDENT")
        open == Expect(ts, name, "LPAREN")
    IN  IF open.st # "ok" THEN open
        ELSE LET args == Check(ts, ParamLoop(ts, <<>>, open.pos, ub), "RPAREN")
                 type == Advance(Expect(ts, Expect(ts, args, "COLON"), "IDENT"))
             IN  IF type.st # "ok" THEN type
                 ELSE Ok([name |-> Current(ts, name.pos).str, args |-> args.node,
                          type |-> Current(ts, type.pos - 1).str],
                         type.pos)

MakeProto(ts, sig, primitive) ==
    IF primitive.st # "ok" THEN primitive
    ELSE Ok(ProtoDecl(sig.name, sig.args, sig.type, Current(ts, primitive.pos).str),
            primitive.pos + 1)

MakeFunc(sig, block) ==
    IF block.st # "ok" THEN block
    ELSE Ok(FuncDecl(sig.name, sig.args, sig.type, block.node), block.pos)

\* Mutant: an = before the body is skipped, and a block always follows.
ProtoOrFunc_EqThenBlock(ts, sig, fuel) ==
    IF sig.st # "ok" THEN sig
    ELSE IF Current(ts, sig.pos).kind = "EQ"
         THEN MakeFunc(sig.node, ParseBlockStmt(ts, sig.pos + 1, fuel))
         ELSE MakeFunc(sig.node, ParseBlockStmt(ts, sig.pos, fuel))

\* The item once its signature is parsed: if (lexer_.Next().Is(EQ)) a
\* prototype, else a function with a block.
ProtoOrFunc(ts, sig, fuel) ==
    IF sig.st # "ok" THEN sig
    ELSE IF Current(ts, sig.pos).kind = "EQ"
         THEN MakeProto(ts, sig.node, Expect(ts, sig, "STRING"))
         ELSE MakeFunc(sig.node, ParseBlockStmt(ts, sig.pos, fuel))

\* The item that starts with FUNC at pos.
ParseFuncOrProto(ts, pos, fuel, ub) == ProtoOrFunc(ts, ParseSignature(ts, pos, ub), fuel)

\* body.push_back(item), or the exception that ends ParseModule.
PushItem(item) ==
    /\ pstatus' = IF item.st = "ok" THEN "parsing" ELSE item.st
    /\ tokpos' = item.pos
    /\ ast' = IF item.st = "ok" THEN Module(Append(ast.body, item.node)) ELSE NoNode
    /\ UNCHANGED <<toks, vmVars, lex>>

\* if (tk.Is(FUNC)) { ... }
ParseModuleFunc ==
    /\ pstatus = "parsing"
    /\ Current(toks, tokpos).kind = "FUNC"
    /\ \E ub \in UBOutcomes : PushItem(ParseFuncOrProto(toks, tokpos, MaxCallDepth, ub))

\* else { body.push_back(ParseStmt()); }
ParseModuleStmt ==
    /\ pstatus = "parsing"
    /\ Current(toks, tokpos).kind \notin {"FUNC", "END"}
    /\ PushItem(ParseStmt(toks, tokpos, MaxCallDepth))

\* The loop ends at the END token: return std::make_unique<Module>(body)
ParseModuleEnd ==
    /\ pstatus = "parsing"
    /\ Current(toks, tokpos).kind = "END"
    /\ pstatus' = "ok"
    /\ UNCHANGED <<toks, tokpos, ast, vmVars, lex>>

\* IfStmt::GetFalseBranchStmt, called on a top-level if of the parsed
\* Module: return *fstmt_.  With no else the pointer is null, and the
\* reference it yields faults when used or refers to no statement.
GetFalseBranchStmt ==
    /\ pstatus = "ok"
    /\ \E i \in 1..Len(ast.body) :
          /\ ast.body[i].s = "IF"
          /\ IF ast.body[i].fstmt = NoNode
             THEN pstatus' \in {"segfault", "wild_reference"}
             ELSE pstatus' = "visited"
    /\ UNCHANGED <<toks, tokpos, ast, vmVars, lex>>

(***************************************************************************)
(* The modules the parser is run on: up to MaxItems top-level items, each  *)
(* one of the sources below, as the token streams the Lexer hands over.    *)
(***************************************************************************)
MaxItems == 2

Id(name) == IdentTok(name)

\* let <name> : int = <n> ;
LetSrc(name, n) ==
    <<Tok("LET"), Id(name), Tok("COLON"), Id("int"), Tok("EQ"), IntTok(n), Tok("SEMI")>>

\* func <name> ( a : int ) : int
SignatureSrc(name) ==
    <<Tok("FUNC"), Id(name), Tok("LPAREN"), Id("a"), Tok("COLON"), Id("int"), Tok("RPAREN"),
      Tok("COLON"), Id("int")>>

\* { return a ; }
BodySrc == <<Tok("LBRACE"), Tok("RETURN"), Id("a"), Tok("SEMI"), Tok("RBRACE")>>

\* func <name> ( a : int ) : int = "<primitive>"
ProtoSrc(name, primitive) == SignatureSrc(name) \o <<Tok("EQ"), StringTok(primitive)>>

\* func <name> ( a : int ) : int { return a ; }
FuncSrc(name) == SignatureSrc(name) \o BodySrc

\* func test ( a : int ) : int = { return a ; }
DocFuncSrc == SignatureSrc("test") \o <<Tok("EQ")>> \o BodySrc

\* func g ( ) : int { }
NoParamSrc ==
    <<Tok("FUNC"), Id("g"), Tok("LPAREN"), Tok("RPAREN"), Tok("COLON"), Id("int"),
      Tok("LBRACE"), Tok("RBRACE")>>

\* func f ( 1 : int ) : int { return a ; }
BadParamSrc ==
    <<Tok("FUNC"), Id("f"), Tok("LPAREN"), IntTok(1), Tok("COLON"), Id("int"), Tok("RPAREN"),
      Tok("COLON"), Id("int")>> \o BodySrc

\* func f ( a : int ) : int return
NoBodySrc == SignatureSrc("f") \o <<Tok("RETURN")>>

\* if ( a ) if ( b ) 1 else 2
DanglingElseSrc ==
    <<Tok("IF"), Tok("LPAREN"), Id("a"), Tok("RPAREN"),
      Tok("IF"), Tok("LPAREN"), Id("b"), Tok("RPAREN"), IntTok(1), Tok("ELSE"), IntTok(2)>>

\* if ( a ) if ( b ) 1 else 2 else 3
DoubleElseSrc == DanglingElseSrc \o <<Tok("ELSE"), IntTok(3)>>

\* if ( a ) 1 else 2
IfElseSrc ==
    <<Tok("IF"), Tok("LPAREN"), Id("a"), Tok("RPAREN"), IntTok(1), Tok("ELSE"), IntTok(2)>>

\* while ( a ) { x ; }
WhileSrc ==
    <<Tok("WHILE"), Tok("LPAREN"), Id("a"), Tok("RPAREN"),
      Tok("LBRACE"), Id("x"), Tok("SEMI"), Tok("RBRACE")>>

\* { a ; b c }
QuirkBlockSrc == <<Tok("LBRACE"), Id("a"), Tok("SEMI"), Id("b"), Id("c"), Tok("RBRACE")>>

\* { a ; b ; }
BlockSrc == <<Tok("LBRACE"), Id("a"), Tok("SEMI"), Id("b"), Tok("SEMI"), Tok("RBRACE")>>

\* if ( n <= 1 ) return 1 ; else return n * fact ( n - 1 ) ;
FactIfSrc ==
    <<Tok("IF"), Tok("LPAREN"), Id("n"), Tok("LEQ"), IntTok(1), Tok("RPAREN"),
      Tok("RETURN"), IntTok(1), Tok("SEMI"),
      Tok("ELSE"), Tok("RETURN"), Id("n"), Tok("STAR"), Id("fact"), Tok("LPAREN"),
      Id("n"), Tok("MINUS"), IntTok(1), Tok("RPAREN"), Tok("SEMI")>>

\* func fact ( n : int ) : int { <the statements above> }
FactSrc ==
    <<Tok("FUNC"), Id("fact"), Tok("LPAREN"), Id("n"), Tok("COLON"), Id("int"), Tok("RPAREN"),
      Tok("COLON"), Id("int"), Tok("LBRACE")>> \o FactIfSrc \o <<Tok("RBRACE")>>

\* - x and - - x
NegSrc == <<Tok("MINUS"), Id("x")>>
NegNegSrc == <<Tok("MINUS"), Tok("MINUS"), Id("x")>>

\* f ( 1 )
CallSrc == <<Id("f"), Tok("LPAREN"), IntTok(1), Tok("RPAREN")>>

\* f ( 1 , )
TrailingArgSrc == <<Id("f"), Tok("LPAREN"), IntTok(1), Tok("COMMA"), Tok("RPAREN")>>

\* func f ( a : int , ) : int { return a ; }
TrailingParamSrc ==
    <<Tok("FUNC"), Id("f"), Tok("LPAREN"), Id("a"), Tok("COLON"), Id("int"), Tok("COMMA"),
      Tok("RPAREN"), Tok("COLON"), Id("int")>> \o BodySrc

LetSrcs == {LetSrc("x", 1), LetSrc("y", 2)}
DeclSrcs == {ProtoSrc("p", "print_int"), ProtoSrc("q", "read_int"), FuncSrc("f"), NoParamSrc}

ItemSrcs ==
    LetSrcs \cup DeclSrcs \cup
    {DocFuncSrc, BadParamSrc, NoBodySrc, DanglingElseSrc, DoubleElseSrc, IfElseSrc, WhileSrc, QuirkBlockSrc,
     BlockSrc, FactSrc, NegSrc, NegNegSrc, CallSrc, TrailingArgSrc, TrailingParamSrc}

RECURSIVE Concat(_)
Concat(seqs) == IF seqs = <<>> THEN <<>> ELSE Head(seqs) \o Concat(Tail(seqs))

SeqsOf(srcs) == UNION {[1..n -> srcs] : n \in 1..MaxItems}

ModuleStreams == {<<>>} \cup {Concat(items) : items \in SeqsOf(ItemSrcs)}

\* Parser(lexer), the Lexer at its first token, ParseModule entered.
InitModule ==
    /\ toks \in ModuleStreams
    /\ tokpos = 1
    /\ ast = Module(<<>>)
    /\ pstatus = "parsing"
    /\ lex = NoLexer
    /\ prog = Assemble(<<<<"STOP">>>>)
    /\ pc = 0
    /\ stack = <<>>
    /\ status = "idle"
    /\ out = <<>>

NextModule == ParseModuleFunc \/ ParseModuleStmt \/ ParseModuleEnd \/ GetFalseBranchStmt

SpecModule == InitModule /\ [][NextModule]_vars

(***************************************************************************)
(* The Lexer (src/lexer.cpp).  lex holds the object: src is the text of    *)
(* the file and rd the number of its characters the stream has handed out, *)
(* eof the stream's eofbit, chr the member chr_, tk the member tk_, and st *)
(* is "new" before the constructor body, "ok" after a call that returned,  *)
(* "LexerError" after one that threw.  A character is a string of length   *)
(* one; Nul is '\0' and EofChar the value peek() returns at the end.       *)
(***************************************************************************)
Nul == "NUL"
EofChar == "EOF"

Spaces == {" ", "\n", "\t"}
Digits == <<"0", "1", "2", "3", "4", "5", "6", "7", "8", "9">>
Alpha ==
    {"a", "b", "c", "d", "e", "f", "g", "h", "i", "j", "k", "l", "m", "n", "o", "p", "q", "r",
     "s", "t", "u", "v", "w", "x", "y", "z", "A", "B", "C", "D", "E", "F", "G", "H", "I", "J",
     "K", "L", "M", "N", "O", "P", "Q", "R", "S", "T", "U", "V", "W", "X", "Y", "Z"}

IsSpace(chr) == chr \in Spaces
IsDigit(chr) == \E d \in 1..10 : Digits[d] = chr
IsIdentStart(chr) == chr = "_" \/ chr \in Alpha
IsIdentLetter(chr) == IsIdentStart(chr) \/ IsDigit(chr)

\* is_.get(chr_) hands out the next character; at the end of the file it
\* fails, sets eofbit and leaves chr_ as it was.
NextChar(L) ==
    IF L.eof THEN [L EXCEPT !.chr = Nul]
    ELSE IF L.rd < Len(L.src)
         THEN [L EXCEPT !.rd = L.rd + 1, !.chr = SubSeq(L.src, L.rd + 1, L.rd + 1)]
         ELSE [L EXCEPT !.eof = TRUE]

\* PeekChar that looks at the current character instead of the next one.
PeekChar_Current(L) == L.chr

\* The value of PeekChar().
PeekChar(L) ==
    IF L.eof THEN Nul
    ELSE IF L.rd < Len(L.src) THEN SubSeq(L.src, L.rd + 1, L.rd + 1)
    ELSE EofChar

\* The stream after PeekChar(): is_.peek() at the end of the file sets eofbit.
Peeked(L) == IF ~L.eof /\ L.rd = Len(L.src) THEN [L EXCEPT !.eof = TRUE] ELSE L

\* Lexer::Error: throw LexerError(GetLocation(), msg)
LexerError(L) == [L EXCEPT !.st = "LexerError"]

\* return tk_ = <token>
Return(L, token) == [L EXCEPT !.tk = token, !.st = "ok"]

RECURSIVE SkipSpace(_)
\* while (isspace(chr_)) NextChar();
SkipSpace(L) == IF IsSpace(L.chr) THEN SkipSpace(NextChar(L)) ELSE L

RECURSIVE StringLoop(_, _)
\* The end of the loop body of a string literal, the character pushed and
\* NextChar() called: if (chr_ == '\0') Error("string not terminated")
StringPushed(L, word) == IF L.chr = Nul THEN LexerError(L) ELSE StringLoop(L, word)

\* while (chr_ != '"') { word.push_back(chr_); NextChar(); ... }
\* NextChar(); return tk_ = Token::String(loc, word)
StringLoop(L, word) ==
    IF L.chr # "\"" THEN StringPushed(NextChar(L), word \o L.chr)
    ELSE Return(NextChar(L), StringTok(word))

RECURSIVE WordLoop(_, _, _)
\* do { word.push_back(chr_); NextChar(); } while (<digit or letter>(chr_));
\* of an integer literal (digits only) and of an identifier.
WordPushed(L, word, digits) ==
    IF (IF digits THEN IsDigit(L.chr) ELSE IsIdentLetter(L.chr))
    THEN WordLoop(L, word, digits)
    ELSE [lexer |-> L, word |-> word]

WordLoop(L, word, digits) == WordPushed(NextChar(L), word \o L.chr, digits)

(***************************************************************************)
(* val = std::stod(word), val a uint64_t.  The literal becomes a double,   *)
(* rounded to the nearest one (ties to even), and the double an unsigned   *)
(* word; std::out_of_range is thrown only past the range of double, and a  *)
(* double past the range of the word converts to no defined value.  The    *)
(* widths stand for 53, 64 and 1024 of the build, in the same order.       *)
(***************************************************************************)
MantissaBits == 4
WordBits == 6
MaxExponent == 8

DigitVal(chr) == CHOOSE d \in 0..9 : Digits[d + 1] = chr

RECURSIVE DecimalValue(_)
\* The number a run of digits denotes.
DecimalValue(word) ==
    IF word = "" THEN 0
    ELSE DecimalValue(SubSeq(word, 1, Len(word) - 1)) * 10
         + DigitVal(SubSeq(word, Len(word), Len(word)))

RECURSIVE BitLen(_)
BitLen(v) == IF v = 0 THEN 0 ELSE 1 + BitLen(v \div 2)

\* v rounded to MantissaBits significant bits, ties to even.
RoundToDouble(v) ==
    IF BitLen(v) <= MantissaBits THEN v
    ELSE LET e == BitLen(v) - MantissaBits
             q == v \div 2^e
             r == v % 2^e
         IN  IF r > 2^(e - 1) \/ (r = 2^(e - 1) /\ q % 2 = 1) THEN (q + 1) * 2^e ELSE q * 2^e

OutOfRange == 0 - 1

\* std::stod
Stod(word) ==
    IF RoundToDouble(DecimalValue(word)) >= 2^MaxExponent THEN OutOfRange
    ELSE RoundToDouble(DecimalValue(word))

\* What a double past the range of the word may convert to.
UBWords == {0, 2^(WordBits - 1), 2^WordBits - 1}

\* The integer literal whose digits are read: r holds the Lexer and the word.
IntegerToken(r, ub) ==
    IF Stod(r.word) = OutOfRange THEN LexerError(r.lexer)
    ELSE Return(r.lexer, IntTok(IF Stod(r.word) < 2^WordBits THEN Stod(r.word) ELSE ub))

\* The word that is read: a keyword or an identifier.
WordToken(r) ==
    CASE r.word = "func" -> Return(r.lexer, Tok("FUNC"))
      [] r.word = "return" -> Return(r.lexer, Tok("RETURN"))
      [] r.word = "while" -> Return(r.lexer, Tok("WHILE"))
      [] r.word = "let" -> Return(r.lexer, Tok("LET"))
      [] r.word = "if" -> Return(r.lexer, Tok("IF"))
      [] r.word = "else" -> Return(r.lexer, Tok("ELSE"))
      [] OTHER -> Return(r.lexer, IdentTok(r.word))

\* The tokens of one character.
Punctuation ==
    [c \in {"(", ")", "{", "}", ":", ";", "*", "/", "%", ","} |->
        CASE c = "(" -> "LPAREN"
          [] c = ")" -> "RPAREN"
          [] c = "{" -> "LBRACE"
          [] c = "}" -> "RBRACE"
          [] c = ":" -> "COLON"
          [] c = ";" -> "SEMI"
          [] c = "*" -> "STAR"
          [] c = "/" -> "SLASH"
          [] c = "%" -> "MOD"
          [] c = "," -> "COMMA"]

\* The operators =, + and -: alone, and doubled.
Single == [c \in {"=", "+", "-"} |->
              CASE c = "=" -> "EQ" [] c = "+" -> "PLUS" [] c = "-" -> "MINUS"]
Double == [c \in {"=", "+", "-"} |->
              CASE c = "=" -> "EQEQ" [] c = "+" -> "INCR" [] c = "-" -> "DECR"]

\* The switch of Lexer::Next, whitespace skipped.
Scan(L, ub) ==
    CASE L.chr = Nul -> Return(L, Tok("END"))
      [] L.chr \in DOMAIN Punctuation -> Return(NextChar(L), Tok(Punctuation[L.chr]))
      [] L.chr \in DOMAIN Single ->
            IF PeekChar(L) = L.chr
            THEN Return(NextChar(NextChar(Peeked(L))), Tok(Double[L.chr]))
            ELSE Return(NextChar(Peeked(L)), Tok(Single[L.chr]))
      [] L.chr = "\"" -> StringLoop(NextChar(L), "")
      [] IsDigit(L.chr) -> IntegerToken(WordLoop(L, "", TRUE), ub)
      [] IsIdentStart(L.chr) -> WordToken(WordLoop(L, "", FALSE))
      [] OTHER -> LexerError(L)

\* Lexer::Next that raises an error when called again after END.
LexNext_ErrorAfterEnd(L, ub) ==
    IF L.st = "ok" /\ L.tk.kind = "END" THEN LexerError(L) ELSE Scan(SkipSpace(L), ub)

\* Lexer::Next
LexNext(L, ub) == Scan(SkipSpace(L), ub)

\* The calls of Next after the first END that are followed.
MaxEnds == 3

\* toks ends with n END tokens.
EndsWithEnds(n) ==
    /\ Len(toks) >= n
    /\ \A i \in (Len(toks) - n + 1)..Len(toks) : toks[i].kind = "END"

\* The call comes back: the token is handed over, or the exception leaves.
Lexed(L) ==
    /\ lex' = L
    /\ toks' = IF L.st = "ok" THEN Append(toks, L.tk) ELSE toks
    /\ UNCHANGED <<tokpos, ast, pstatus, vmVars>>

\* Lexer::Lexer: NextChar(); Next();
LexerNew ==
    /\ lex.st = "new"
    /\ \E ub \in UBWords : Lexed(LexNext(NextChar(lex), ub))

\* A call of Lexer::Next by the owner of the Lexer.
LexerNext ==
    /\ lex.st = "ok"
    /\ pstatus = "idle"
    /\ ~EndsWithEnds(MaxEnds)
    /\ \E ub \in UBWords : Lexed(LexNext(lex, ub))

\* Parser(lexer) and the entry of ParseModule, on a file that lexed to its
\* END.  (The parser pulls the tokens while it parses; here the file is
\* lexed first, and a file with a lexical error yields no Module.)
ParserNew ==
    /\ lex.st = "ok"
    /\ pstatus = "idle"
    /\ EndsWithEnds(1)
    /\ pstatus' = "parsing"
    /\ tokpos' = 1
    /\ ast' = Module(<<>>)
    /\ UNCHANGED <<toks, lex, vmVars>>

\* operator<<(std::ostream&, Token::Kind), for the kinds the Lexer yields.
KindText(kind) ==
    CASE kind = "FUNC" -> "func"
      [] kind = "RETURN" -> "return"
      [] kind = "WHILE" -> "while"
      [] kind = "LET" -> "let"
      [] kind = "IF" -> "if"
      [] kind = "ELSE" -> "else"
      [] kind = "LPAREN" -> "("
      [] kind = "RPAREN" -> ")"
      [] kind = "LBRACE" -> "{"
      [] kind = "RBRACE" -> "}"
      [] kind = "COLON" -> ":"
      [] kind = "SEMI" -> ";"
      [] kind = "EQ" -> "="
      [] kind = "EQEQ" -> "=="
      [] kind = "COMMA" -> ","
      [] kind = "PLUS" -> "+"
      [] kind = "INCR" -> "++"
      [] kind = "MINUS" -> "-"
      [] kind = "DECR" -> "--"
      [] kind = "STAR" -> "*"
      [] kind = "SLASH" -> "/"
      [] kind = "MOD" -> "%"
      [] kind = "END" -> "END"
      [] kind = "INT" -> "INT"
      [] kind = "STRING" -> "STRING"
      [] kind = "IDENT" -> "IDENT"

RECURSIVE Decimal(_)
\* os << value_.IntValue
Decimal(n) == IF n < 10 THEN Digits[n + 1] ELSE Decimal(n \div 10) \o Digits[(n % 10) + 1]

\* Token::Print: the kind, and the payload in parentheses.
TokenPrint(tk) ==
    CASE tk.kind = "INT" -> KindText(tk.kind) \o "(" \o Decimal(tk.int) \o ")"
      [] tk.kind = "STRING" -> KindText(tk.kind) \o "(\"" \o tk.str \o "\")"
      [] tk.kind = "IDENT" -> KindText(tk.kind) \o "(" \o tk.str \o ")"
      [] OTHER -> KindText(tk.kind)

\* What chr_ may hold before the constructor reads the first character.
IndeterminateChars == {Nul, "\n", "}"}

\* The Lexer on a file of the given text, its constructor body not yet run.
NewLexer(text, chr) ==
    [src |-> text, rd |-> 0, eof |-> FALSE, chr |-> chr, tk |-> Tok("END"), st |-> "new"]

(***************************************************************************)
(* The files the Lexer is run on.                                          *)
(***************************************************************************)
RoundTripSrc == "func f(a: int): int = { return a; }"

WordSrcs ==
    {"true", "false ", "true ", "iffy ", "iffy", "if ", "if", "func ", "return ", "while ",
     "let ", "else ", "_x1 ", "x"}

OperatorSrcs ==
    {"a < b ", "a <= b ", "a > b ", "a >= b ", "a != b ", "!a ", "a == b ", "a + b * c "}

StringSrcs == {"\"abc", "\"", "\"abc\" ", "\"ab\"", "x \"", "\"a\" \"b"}

NumberSrcs == {"5 ", "15 ", "16 ", "17 ", "19 ", "63 ", "64 ", "70 ", "255 ", "300 ", "12", "7"}

MunchSrcs ==
    {"===", "==", "= =", "== ", "++", "+ +", "++ ", "--", "- -", "-- ", "=", "+", "-", "+-",
     "=+ ", "--- ", "+++", "a==b ", "a=b ", "a++b ", "a--b ", "-=", "=a"}

EndSrcs == {"", " ", "}", "{ }", "x }\n", "{ }\n", "\n", ");", "f(1)", "f(1) "}

Sources ==
    {RoundTripSrc, RoundTripSrc \o "\n"} \cup WordSrcs \cup OperatorSrcs \cup StringSrcs
    \cup NumberSrcs \cup MunchSrcs \cup EndSrcs

\* A Lexer is about to be constructed on one of the files.
InitLex ==
    /\ lex \in {NewLexer(text, chr) : text \in Sources, chr \in IndeterminateChars}
    /\ toks = <<>>
    /\ tokpos = 1
    /\ ast = NoNode
    /\ pstatus = "idle"
    /\ prog = Assemble(<<<<"STOP">>>>)
    /\ pc = 0
    /\ stack = <<>>
    /\ status = "idle"
    /\ out = <<>>

NextLex ==
    \/ LexerNew
    \/ LexerNext
    \/ ParserNew
    \/ ParseModuleFunc
    \/ ParseModuleStmt
    \/ ParseModuleEnd

SpecLex == InitLex /\ [][NextLex]_vars

(***************************************************************************)
(* Vocabulary of the parser's properties.                                  *)
(***************************************************************************)
\* The precedence level of an expression: equality lowest, then relational,
\* additive, multiplicative; everything that is not a binary node binds tightest.
Level(node) ==
    IF node.e # "BINARY" THEN 5
    ELSE CASE node.kind \in {"EQ", "NEQ"} -> 1
           [] node.kind \in {"GR", "GREQ", "LE", "LEQ"} -> 2
           [] node.kind \in {"ADD", "SUB"} -> 3
           [] node.kind \in {"MUL", "DIV", "MOD"} -> 4

\* The token a binary node kind is written with.
KindTok(kind) ==
    CASE kind = "EQ" -> "EQEQ"
      [] kind = "ADD" -> "PLUS"
      [] kind = "SUB" -> "MINUS"
      [] kind = "MUL" -> "STAR"
      [] kind = "DIV" -> "SLASH"
      [] OTHER -> kind

RECURSIVE Flatten(_)
\* The tokens of an expression of literals and binary operators, in order.
Flatten(node) ==
    IF node.e = "BINARY"
    THEN Flatten(node.lhs) \o <<Tok(KindTok(node.kind))>> \o Flatten(node.rhs)
    ELSE IF node.e = "INTEGER" THEN <<IntTok(node.val)>>
    ELSE <<>>

RECURSIVE NestsByPrecedence(_)
\* No operand of a binary node binds looser than the node; the right operand
\* binds strictly tighter (operators of one level group to the left).
NestsByPrecedence(node) ==
    node.e = "BINARY" =>
        /\ Level(node.lhs) >= Level(node)
        /\ Level(node.rhs) > Level(node)
        /\ NestsByPrecedence(node.lhs)
        /\ NestsByPrecedence(node.rhs)

Parsed == pstatus # "ready"

\* C10: the parser nests higher-precedence operators deeper.  Every chain of
\* literals joined by binary operators parses, to a tree that holds the
\* chain's tokens in order and in which multiplicative nodes lie below
\* additive ones, additive below relational, relational below equality;
\* 2 + 3 * 4 yields ADD(2, MUL(3, 4)) and not MUL(ADD(2, 3), 4).
C10_Precedence ==
    (Parsed /\ toks \in Chains) =>
        /\ pstatus = "ok"
        /\ tokpos = Len(toks) + 1
        /\ Flatten(ast.expr) = toks
        /\ NestsByPrecedence(ast.expr)
        /\ toks = Chain(<<"PLUS", "STAR">>) =>
              /\ ast = ExprStmt(BinaryExpr("ADD", IntExpr(2),
                                           BinaryExpr("MUL", IntExpr(3), IntExpr(4))))
              /\ ast # ExprStmt(BinaryExpr("MUL", BinaryExpr("ADD", IntExpr(2), IntExpr(3)),
                                           IntExpr(4)))

\* 2 + 3 * 4 has been parsed, the product below the sum.
C10_Witness ==
    /\ pstatus = "ok"
    /\ toks = <<IntTok(2), Tok("PLUS"), IntTok(3), Tok("STAR"), IntTok(4)>>
    /\ ast.expr.kind = "ADD"
    /\ ast.expr.rhs = BinaryExpr("MUL", IntExpr(3), IntExpr(4))


\* The precedence level of a binary operator token.
TokLevel(kind) ==
    CASE kind \in {"EQEQ", "NEQ"} -> 1
      [] kind \in {"GR", "GREQ", "LE", "LEQ"} -> 2
      [] kind \in {"PLUS", "MINUS"} -> 3
      [] kind \in {"STAR", "SLASH", "MOD"} -> 4

\* The operators of the chain are all of one precedence level.
OneLevel(ts) ==
    \A i, j \in 1..Len(ts) :
        (i % 2 = 0 /\ j % 2 = 0) => TokLevel(ts[i].kind) = TokLevel(ts[j].kind)

RECURSIVE GroupsLeft(_)
\* Every right operand is a leaf: ((e1 op e2) op e3) op e4 ...
GroupsLeft(node) ==
    node.e = "BINARY" => (node.rhs.e # "BINARY" /\ GroupsLeft(node.lhs))

\* C11: binary operators of one precedence level are left-associative.  A
\* chain whose operators are all of one level parses to a tree in which
\* every right operand is a single literal, the tokens read off the tree in
\* order are the chain (each node has the operator written at its place),
\* and 2 - 3 - 4 yields SUB(SUB(2, 3), 4).
C11_LeftAssociative ==
    (Parsed /\ toks \in Chains /\ OneLevel(toks)) =>
        /\ pstatus = "ok"
        /\ GroupsLeft(ast.expr)
        /\ Flatten(ast.expr) = toks
        /\ toks = Chain(<<"MINUS", "MINUS">>) =>
              ast.expr = BinaryExpr("SUB", BinaryExpr("SUB", IntExpr(2), IntExpr(3)), IntExpr(4))

\* 2 - 3 - 4 has been parsed, the first difference below the second.
C11_Witness ==
    /\ pstatus = "ok"
    /\ toks = <<IntTok(2), Tok("MINUS"), IntTok(3), Tok("MINUS"), IntTok(4)>>
    /\ ast.expr.kind = "SUB"
    /\ ast.expr.lhs = BinaryExpr("SUB", IntExpr(2), IntExpr(3))
    /\ ast.expr.rhs = IntExpr(4)


(***************************************************************************)
(* Vocabulary of the properties of statements and modules.                 *)
(***************************************************************************)
\* ParseModule has not thrown: ast is the Module built so far.
HasModule == ast # NoNode /\ pstatus \notin {"ParserError", "stack_overflow", "abort"}

\* toks begins with the tokens of src.
StartsWith(src) == Len(toks) >= Len(src) /\ SubSeq(toks, 1, Len(src)) = src

RECURSIVE OpenIf(_)
\* The statement ends in an if that has no else.
OpenIf(stmt) ==
    CASE stmt.s = "IF" -> IF stmt.fstmt = NoNode THEN TRUE ELSE OpenIf(stmt.fstmt)
      [] stmt.s = "WHILE" -> OpenIf(stmt.stmt)
      [] OTHER -> FALSE

RECURSIVE ElseNearest(_)
\* In no if of the statement does an else follow a true branch that ends
\* in an if without else.
ElseNearest(stmt) ==
    CASE stmt.s = "IF" ->
            /\ stmt.fstmt # NoNode => (~OpenIf(stmt.tstmt) /\ ElseNearest(stmt.fstmt))
            /\ ElseNearest(stmt.tstmt)
      [] stmt.s = "WHILE" -> ElseNearest(stmt.stmt)
      [] stmt.s = "BLOCK" -> \A i \in 1..Len(stmt.body) : ElseNearest(stmt.body[i])
      [] stmt.s = "FUNC" -> ElseNearest(stmt.body)
      [] OTHER -> TRUE

InnerIf == IfStmt(RefExpr("b"), ExprStmt(IntExpr(1)), ExprStmt(IntExpr(2)))

\* C12: an else attaches to the nearest unmatched if.  In every item parsed,
\* no else follows a true branch that ends in an if without else, and
\* if (a) if (b) 1 else 2 yields an outer IfStmt with no false branch whose
\* true branch is the inner IfStmt with the else branch.
C12_DanglingElse ==
    HasModule =>
        /\ \A i \in 1..Len(ast.body) : ElseNearest(ast.body[i])
        /\ (toks = DanglingElseSrc /\ tokpos > 1) =>
              ast.body = <<IfStmt(RefExpr("a"), InnerIf, NoNode)>>

\* if (a) if (b) 1 else 2 has been parsed to the end, the else on the inner if.
C12_Witness ==
    /\ pstatus = "ok"
    /\ toks = DanglingElseSrc
    /\ Len(ast.body) = 1
    /\ ast.body[1].s = "IF"
    /\ ast.body[1].fstmt = NoNode
    /\ ast.body[1].tstmt = InnerIf


Finished == pstatus # "parsing"

\* C13: a prefix - or ! is consumed and wrapped: - x parses to NEG(x) and
\* - - x to NEG(NEG(x)), the parse terminating.
C13_UnaryTerminates ==
    /\ (toks = NegSrc /\ Finished) =>
          (pstatus = "ok" /\ ast.body = <<ExprStmt(UnaryExpr("NEG", RefExpr("x")))>>)
    /\ (toks = NegNegSrc /\ Finished) =>
          (pstatus = "ok" /\
           ast.body = <<ExprStmt(UnaryExpr("NEG", UnaryExpr("NEG", RefExpr("x"))))>>)

FactIf ==
    IfStmt(BinaryExpr("LEQ", RefExpr("n"), IntExpr(1)),
           ReturnStmt(IntExpr(1)),
           ReturnStmt(BinaryExpr("MUL", RefExpr("n"),
                                 CallExpr(RefExpr("fact"),
                                          <<BinaryExpr("SUB", RefExpr("n"), IntExpr(1))>>))))

\* C14: in a function body, if (n <= 1) return 1; else return n * fact(n - 1);
\* is accepted and yields one IfStmt with a true and a false branch.
C14_FactBodyAccepted ==
    (toks = FactSrc /\ Finished) =>
        /\ pstatus = "ok"
        /\ ast.body = <<FuncDecl("fact", <<<<"n", "int">>>>, "int", BlockStmt(<<FactIf>>))>>

StmtA == ExprStmt(RefExpr("a"))
StmtB == ExprStmt(RefExpr("b"))

\* C15, as stated: parsing { a; b c } gives a block whose body is exactly
\* [a, b].
C15_QuirkYieldsBlock ==
    (toks = QuirkBlockSrc /\ Finished) =>
        (pstatus = "ok" /\ ast.body = <<BlockStmt(<<StmtA, StmtB>>)>>)

\* C15, amended: on { a; b c } the statement loop of ParseBlockStmt is left
\* after b with the body [a, b] and c, unparsed, as the current token; the
\* check for the closing brace then throws ParserError at c, and no block
\* is built.
C15_QuirkStopsAtC ==
    (toks = QuirkBlockSrc /\ tokpos > 1) =>
        /\ BlockLoop(toks, <<>>, 1, MaxCallDepth) = Ok(<<StmtA, StmtB>>, 5)
        /\ toks[5] = Id("c")
        /\ pstatus = "ParserError"
        /\ tokpos = 5
        /\ ast = NoNode

\* { a; b c } has been parsed: the parser stands at c with an error.
C15_Witness ==
    /\ toks = QuirkBlockSrc
    /\ pstatus = "ParserError"
    /\ Current(toks, tokpos) = Id("c")

VarDeclOf(src) == VarDeclStmt(src[2].str, src[4].str, IntExpr(src[6].int))

\* C16: a module of top-level let declarations, each with its semicolon, is
\* accepted and yields one VarDeclStmt per declaration, in order.
C16_TopLevelLets ==
    \A lets \in SeqsOf(LetSrcs) :
        (toks = Concat(lets) /\ Finished) =>
            /\ pstatus = "ok"
            /\ ast.body = [i \in 1..Len(lets) |-> VarDeclOf(lets[i])]

ParamA == <<<<"a", "int">>>>
BodyA == BlockStmt(<<ReturnStmt(RefExpr("a"))>>)

\* The declaration each of DeclSrcs is to yield.
DeclOf(src) ==
    CASE src = ProtoSrc("p", "print_int") -> ProtoDecl("p", ParamA, "int", "print_int")
      [] src = ProtoSrc("q", "read_int") -> ProtoDecl("q", ParamA, "int", "read_int")
      [] src = FuncSrc("f") -> FuncDecl("f", ParamA, "int", BodyA)
      [] src = NoParamSrc -> FuncDecl("g", <<>>, "int", BlockStmt(<<>>))

C18_DocumentedForm ==
    (toks = DocFuncSrc /\ Finished) =>
        (pstatus = "ok" /\ ast.body = <<FuncDecl("test", ParamA, "int", BodyA)>>)

\* C19: a token that is not an identifier in the parameter-name position,
\* as in func f(1: int): int, gives a ParserError at that token.
C19_ParamNameChecked ==
    (StartsWith(BadParamSrc) /\ tokpos > 1) =>
        (pstatus = "ParserError" /\ tokpos = 4 /\ ast = NoNode)

\* C20: no accessor of IfStmt dereferences an absent false branch.
C20_NoNullFalseBranch == pstatus \notin {"segfault", "wild_reference"}

(***************************************************************************)
(* Vocabulary of the lexer's properties.                                   *)
(***************************************************************************)
\* The text without the blank that ends it.
Word(src) ==
    IF src # "" /\ SubSeq(src, Len(src), Len(src)) = " "
    THEN SubSeq(src, 1, Len(src) - 1)
    ELSE src

EndsInBlank(src) == src # "" /\ SubSeq(src, Len(src), Len(src)) = " "

\* The keyword set and the token of each keyword.
KeywordKind(word) ==
    CASE word = "func" -> "FUNC"
      [] word = "return" -> "RETURN"
      [] word = "while" -> "WHILE"
      [] word = "let" -> "LET"
      [] word = "if" -> "IF"
      [] word = "else" -> "ELSE"
      [] word = "true" -> "TRUE"
      [] word = "false" -> "FALSE"
      [] OTHER -> "IDENT"

WordTok(word) ==
    IF KeywordKind(word) = "IDENT" THEN IdentTok(word) ELSE Tok(KeywordKind(word))

\* C21: a word is lexed as a keyword token exactly when it is one of func,
\* return, while, let, if, else, true, false, and otherwise as an IDENT with
\* the whole word; true and false are parsed into boolean literals.
C21_KeywordsReclassified ==
    /\ (lex.src \in WordSrcs /\ EndsInBlank(lex.src) /\ toks # <<>>) =>
          toks[1] = WordTok(Word(lex.src))
    /\ (lex.src = "true " /\ pstatus = "ok") =>
          ast.body = <<ExprStmt(BoolExpr(TRUE))>>
    /\ (lex.src = "false " /\ pstatus = "ok") => ast.body = <<ExprStmt(BoolExpr(FALSE))>>

\* The files that use a relational or inequality operator, or a prefix !.
RelationalSrcs == {"a < b ", "a <= b ", "a > b ", "a >= b ", "a != b ", "!a "}

\* The expression each of them is to yield.
RelationalExpr(src) ==
    CASE src = "a < b " -> BinaryExpr("LE", RefExpr("a"), RefExpr("b"))
      [] src = "a <= b " -> BinaryExpr("LEQ", RefExpr("a"), RefExpr("b"))
      [] src = "a > b " -> BinaryExpr("GR", RefExpr("a"), RefExpr("b"))
      [] src = "a >= b " -> BinaryExpr("GREQ", RefExpr("a"), RefExpr("b"))
      [] src = "a != b " -> BinaryExpr("NEQ", RefExpr("a"), RefExpr("b"))
      [] src = "!a " -> UnaryExpr("NOT", RefExpr("a"))

\* C22: text with <, <=, >, >=, != or a prefix ! is lexed without a lexical
\* error and parsed into the corresponding BinaryExpr or UnaryExpr.
C22_RelationalPipeline ==
    lex.src \in RelationalSrcs =>
        /\ lex.st # "LexerError"
        /\ pstatus = "ok" => ast.body = <<ExprStmt(RelationalExpr(lex.src))>>

\* Files that end inside a string literal.
UnterminatedSrcs == {"\"abc", "\"", "x \""}

\* C23: a string literal with no closing quote before the end of the input
\* makes Next raise a LexerError, and no STRING token is returned for it.
C23_UnterminatedString ==
    lex.src \in UnterminatedSrcs =>
        /\ \A i \in 1..Len(toks) : toks[i].kind \notin {"STRING", "END"}
        /\ (lex.st = "ok" /\ lex.src # "x \"") => toks = <<>>

\* C24: the INT token of a run of digits carries the decimal value of the
\* run, and a run whose value is past the largest word raises a LexerError.
C24_ExactValue ==
    (lex.src \in NumberSrcs /\ EndsInBlank(lex.src) /\ lex.st # "new") =>
        IF DecimalValue(Word(lex.src)) > 2^WordBits - 1
        THEN lex.st = "LexerError" /\ toks = <<>>
        ELSE toks # <<>> /\ toks[1] = IntTok(DecimalValue(Word(lex.src)))

\* The Lexer has read one token, which is tk, and the next one is END.
Reproduces(again, tk, ub) ==
    /\ again.st = "ok"
    /\ again.tk = tk
    /\ LexNext(again, ub).st = "ok"
    /\ LexNext(again, ub).tk.kind = "END"

\* C25: each token lexed from func f(a: int): int = { return a; }, printed
\* by Token::Print and lexed again (the printed text on a line of its own),
\* comes back as one token of the same kind and payload.
C25_RoundTrip ==
    (lex.src = RoundTripSrc \o "\n" /\ lex.st = "ok" /\ lex.tk.kind # "END") =>
        \A ub \in UBWords :
            Reproduces(LexNext(NextChar(NewLexer(TokenPrint(lex.tk) \o "\n", Nul)), ub),
                       lex.tk, ub)

\* C26: once Next has returned END, every later call returns END again,
\* reads no character, raises no error, and the current token stays END.
C26_EndAbsorbing ==
    /\ [](\A i \in 1..Len(toks) :
             toks[i].kind = "END" =>
                 /\ lex.st = "ok"
                 /\ lex.tk = Tok("END")
                 /\ \A j \in i..Len(toks) : toks[j] = Tok("END"))
    /\ [][(lex.st = "ok" /\ lex.tk.kind = "END" /\ toks' # toks) =>
              (lex' = lex /\ toks' = Append(toks, Tok("END")))]_vars

\* Next was called twice more after the first END.
C26_Witness ==
    /\ lex.src = "{ }\n"
    /\ toks = <<Tok("LBRACE"), Tok("RBRACE"), Tok("END"), Tok("END"), Tok("END")>>
    /\ lex.st = "ok"

\* The Lexer where the switch of the coming call of Next finds it.
AtSwitch == IF lex.st = "new" THEN SkipSpace(NextChar(lex)) ELSE SkipSpace(lex)

\* chr_ holds the character of the file at the read position, for the
\* first time.
Fresh(L) == ~L.eof /\ L.rd >= 1 /\ L.chr = SubSeq(L.src, L.rd, L.rd)

\* The character of the file n places after the one in chr_ .
CharAfter(L, n) == SubSeq(L.src, L.rd + n, L.rd + n)

\* How many characters the operator at chr_ spans.
Munch(L) == IF L.rd < Len(L.src) /\ CharAfter(L, 1) = L.chr THEN 2 ELSE 1

\* C27: at =, + or - the next character decides: the same character again
\* gives EQEQ, INCR or DECR and both are consumed; any other gives EQ, PLUS
\* or MINUS and one is consumed; === is EQEQ then EQ.
C27_MaximalMunch ==
    /\ [][(lex' # lex /\ Fresh(AtSwitch) /\ AtSwitch.chr \in DOMAIN Single) =>
              /\ lex'.st = "ok"
              /\ lex'.tk = Tok(IF Munch(AtSwitch) = 2 THEN Double[AtSwitch.chr]
                                                      ELSE Single[AtSwitch.chr])
              /\ toks' = Append(toks, lex'.tk)
              /\ AtSwitch.rd + Munch(AtSwitch) <= Len(lex.src) =>
                    /\ lex'.rd = AtSwitch.rd + Munch(AtSwitch)
                    /\ lex'.chr = CharAfter(AtSwitch, Munch(AtSwitch))
                    /\ ~lex'.eof]_vars
    /\ [](lex.src = "===" =>
              /\ lex.st # "LexerError"
              /\ Len(toks) >= 2 => (toks[1] = Tok("EQEQ") /\ toks[2] = Tok("EQ")))

\* === has been lexed to its end.
C27_Witness ==
    /\ lex.src = "==="
    /\ toks = <<Tok("EQEQ"), Tok("EQ"), Tok("END")>>

\* C28: the last character of a file that does not end in whitespace is
\* lexed once: a final } gives one RBRACE and then END, and a closed string
\* literal at the end of the file gives the STRING token and then END.
C28_LastCharOnce ==
    /\ (lex.src = "}" /\ Len(toks) >= 2) => (toks[1] = Tok("RBRACE") /\ toks[2] = Tok("END"))
    /\ lex.src = "\"ab\"" =>
          /\ lex.st # "LexerError"
          /\ Len(toks) >= 2 => (toks[1] = StringTok("ab") /\ toks[2] = Tok("END"))

\* C29: CALL on a primitive handle leaves pc at the next instruction and
\* pushes no return address; print_int with an integer argument on top
\* leaves the stack as it was with the handle replaced by a copy of the
\* argument, the argument still beneath it.
C29_PrimitiveCall ==
    [][(CurOp = "CALL" /\ TopIs({"PROTO"})) =>
            /\ pc' = pc + SizeOpcode
            /\ Len(stack') >= Len(stack) - 1
            /\ SubSeq(stack', 1, Len(stack) - 1) = Drop(stack, 1)
            /\ \A i \in Len(stack)..Len(stack') : stack'[i].k # "ADDR"
            /\ (Top(stack).v = "print_int" /\ TopIs({"PROTO"}) /\ Len(stack) >= 2
                    /\ stack[Len(stack) - 1].k = "INT") =>
                  /\ stack' = Append(Drop(stack, 1), stack[Len(stack) - 1])
                  /\ out' = Append(out, stack[Len(stack) - 1])
                  /\ status' = "running"]_vars

\* print_int has been called on an integer: the argument and its copy are
\* on the stack and the integer is printed.
C29_Witness ==
    /\ \E i \in IntVals :
          /\ stack = <<IntV(BaseInt), IntV(i), IntV(i)>>
          /\ out = <<IntV(i)>>
    /\ \E a \in DOMAIN prog :
          prog[a].t = "op" /\ prog[a].v = "CALL" /\ pc = a + SizeOpcode

\* C30: a comma right before the closing parenthesis of a call's arguments
\* or of a function's parameters is rejected with a ParserError.
C30_TrailingCommaRejected ==
    ((StartsWith(TrailingArgSrc) \/ StartsWith(TrailingParamSrc)) /\ tokpos > 1) =>
        pstatus = "ParserError"

====
